---- MODULE Spec2Model ----
(***************************************************************************)
(* State-machine model of the peerlab gateway: the ASN pool, the prefix    *)
(* pool, the two store tables (user_asn_mappings, prefix_leases) and the   *)
(* request handlers request_asn and request_prefix, each split at the      *)
(* points where the handler awaits the database.                           *)
(*                                                                         *)
(* Time is counted in hours.  An Option<T> is <<>> (None) or <<v>> (Some). *)
(***************************************************************************)
EXTENDS Integers, Sequences, FiniteSets, TLC

(***************************************************************************)
(* Bounds of the model                                                     *)
(***************************************************************************)
\* number of values in the ASN pool [asn_pool_start, asn_pool_end]
AsnPoolSize == 2
\* the longest prefix file tried on from_file, in lines
MaxFileLines == 3
\* pool bounds and committed values tried on find_available_asn: 0 .. MaxAsnValue
MaxAsnValue == 3
\* number of lease rows ever inserted in one behaviour
MaxLeases == 2
\* number of times the clock advances in one behaviour
MaxTicks == 2
\* the same, in the behaviours where requests overlap
MaxConcurrentTicks == 1

\* concurrent in-flight requests
Slots == {1, 2}
\* authenticated subjects (AuthInfo.sub)
Subjects == {"alice", "bob", "carol"}
\* the subjects that ask for prefixes when only prefix traffic is served
LeaseSubjects == {"alice", "bob"}
\* duration_hours values a client sends: the two ends of the valid range
\* and the first value outside it on each side
DurationInputs == {0, 1, 24, 25}

(***************************************************************************)
(* Program constants                                                       *)
(***************************************************************************)
asn_pool_start == 65000
asn_pool_end == asn_pool_start + AsnPoolSize - 1
MinDurationHours == 1
MaxDurationHours == 24
\* INTERVAL '7 days', in hours
RetentionHours == 168
\* clock advances: one hour, or the cleanup retention interval
TickSteps == {1, RetentionHours}

\* a clock step that takes every lease made before it past its retention
LongTick == RetentionHours + MaxDurationHours + 1
\* clock steps where prefix requests overlap
ConcurrentTickSteps == {1, LongTick}

\* prefix traffic served together with ASN traffic: one subject, the
\* shortest lease, the clock advancing by LongTick
\* lease durations asked for where the lease queries are served
InfoDurations == {MinDurationHours, MaxDurationHours}
MixedLeaseSubjects == {"alice"}
MixedDurations == {MinDurationHours}
MixedTickSteps == {LongTick}

(***************************************************************************)
(* hash_user_identifier: hex(SHA-256(sub)), tabulated for the subjects of  *)
(* the model (the digests are the real ones).                              *)
(***************************************************************************)
hash_user_identifier_of_first_letter(user_id) ==
    CASE user_id \in {"alice", "bob"} -> "2bd806c97f0e00af1a1fc3328fa763a9269723c8db8fac4f93af71db186d6e90"
      [] OTHER -> "2aed2fcc28e7c3079faee82f832c551a76494b4861dd16bd52362c2f29134a69"

hash_user_identifier(user_id) ==
    CASE user_id = "alice" -> "2bd806c97f0e00af1a1fc3328fa763a9269723c8db8fac4f93af71db186d6e90"
      [] user_id = "bob" -> "81b637d8fcd2c6da6359e6963113a1170de795e4b725b84d1e0b4cfd9ec58ce9"
      [] user_id = "carol" -> "4c26d9074c27d89ede59270c0ac14b71e071b15239519f75474b2f3ba63481f5"
      [] user_id = "dev-user" -> "2aed2fcc28e7c3079faee82f832c551a76494b4861dd16bd52362c2f29134a69"

Handles == {hash_user_identifier(u) : u \in Subjects}

(***************************************************************************)
(* Prefix pool.  An Ipv6Net is a record [seg, len]: seg is the third       *)
(* 16-bit group of 2001:db8:seg::, len the prefix length.                  *)
(***************************************************************************)
Ipv6Net(seg, len) == [seg |-> seg, len |-> len]

\* Display for Ipv6Net (prefix.to_string()); for a network with no host
\* bits it is also the text PostgreSQL returns for prefix::text
Ipv6Net_to_string(p) ==
    CASE p.len = 64 -> "2001:db8:3::/64"
      [] p.seg = 1 -> "2001:db8:1::/48"
      [] p.seg = 2 -> "2001:db8:2::/48"
      [] p.seg = 3 -> "2001:db8:3::/48"
      [] OTHER -> "2001:db8::/48"

KnownNets == {Ipv6Net(s, 48) : s \in 0..3} \cup {Ipv6Net(3, 64)}

\* Ipv6Net::from_str(text).ok()
Ipv6Net_from_str(text) ==
    IF \E p \in KnownNets : Ipv6Net_to_string(p) = text
    THEN <<CHOOSE p \in KnownNets : Ipv6Net_to_string(p) = text>>
    ELSE <<>>

\* PrefixPool.prefixes, in file order (the file of Scenario B)
prefixes == <<Ipv6Net(1, 48), Ipv6Net(2, 48)>>

\* A line of the prefix file is a sequence of pieces: a space, a '#', or a
\* run of other characters.  str::trim takes the spaces off both ends.
RECURSIVE trim_start(_)
trim_start(line) ==
    IF line # <<>> /\ line[1] = " " THEN trim_start(Tail(line)) ELSE line

RECURSIVE trim_end(_)
trim_end(line) ==
    IF line # <<>> /\ line[Len(line)] = " "
    THEN trim_end(SubSeq(line, 1, Len(line) - 1))
    ELSE line

trim(line) == trim_end(trim_start(line))

\* Ipv6Net::from_str(line).ok() of a trimmed line: a line of one piece
\* that is the text of a network
parse_line(line) ==
    IF Len(line) = 1 THEN Ipv6Net_from_str(line[1]) ELSE <<>>

\* the loop of from_file over the lines left, prefixes being the Vec so far
RECURSIVE load_lines(_, _)
load_lines(lines, acc) ==
    IF lines = <<>> THEN acc
    ELSE LET line == trim(Head(lines))
             net == parse_line(line)
         IN IF line = <<>> \/ line[1] = "#" THEN load_lines(Tail(lines), acc)
            ELSE IF net # <<>> /\ net[1].len = 48
            THEN load_lines(Tail(lines), Append(acc, net[1]))
            ELSE load_lines(Tail(lines), acc)

\* PrefixPool::from_file, the file read: content.lines() into prefixes
from_file(content) == load_lines(content, <<>>)

\* the file of Scenario B
DefaultPrefixFile == <<<<"2001:db8:1::/48">>, <<"2001:db8:2::/48">>>>

(***************************************************************************)
(* Text.  A string the program looks into (a header value, a secret) is a  *)
(* sequence of characters.                                                 *)
(***************************************************************************)
\* s.strip_prefix(prefix): the rest of s after prefix, or None
strip_prefix(s, prefix) ==
    IF Len(s) >= Len(prefix) /\ SubSeq(s, 1, Len(prefix)) = prefix
    THEN <<SubSeq(s, Len(prefix) + 1, Len(s))>>
    ELSE <<>>

\* "Bearer "
Bearer == <<"B", "e", "a", "r", "e", "r", " ">>

\* --agent-key, default "agent-key"
DefaultAgentKey == <<"a", "g", "e", "n", "t", "-", "k", "e", "y">>

(***************************************************************************)
(* AppState, as main builds it from the command line.  The identity        *)
(* provider settings are Options; bypass_jwt is false unless given.        *)
(***************************************************************************)
CliDefaults ==
    [bypass_jwt_validation |-> FALSE,
     logto_jwks_uri |-> <<>>, logto_issuer |-> <<>>,
     logto_management_api |-> <<>>, logto_m2m_app_id |-> <<>>,
     logto_m2m_app_secret |-> <<>>,
     agent_key |-> DefaultAgentKey,
     asn_pool |-> [start |-> asn_pool_start, end |-> asn_pool_end],
     prefix_pool_file |-> DefaultPrefixFile,
     prefix_pool |-> prefixes]

\* every identity provider setting given, bypass not given
ConfiguredState ==
    [CliDefaults EXCEPT !.logto_jwks_uri = <<"https://idp/oidc/jwks">>,
                        !.logto_issuer = <<"https://idp/oidc">>,
                        !.logto_management_api = <<"https://idp/api">>,
                        !.logto_m2m_app_id = <<"m2m-app">>,
                        !.logto_m2m_app_secret = <<"m2m-secret">>]

VARIABLES
    user_asn_mappings,  \* table user_asn_mappings: rows [user_hash, asn]
    prefix_leases,      \* table prefix_leases: rows [id, user_hash, prefix, start_time, end_time]
    lease_seq,          \* number of lease rows inserted so far (the row ids)
    now,                \* the clock (Utc::now() and NOW()), in hours
    ticks,              \* number of clock advances so far
    req,                \* per slot: the request in flight
    response,           \* the response the last step sent, if it sent one
    app_state           \* AppState: the configuration the process was started with

vars == <<user_asn_mappings, prefix_leases, lease_seq, now, ticks, req, response,
          app_state>>

(***************************************************************************)
(* A request.  pc is the await point the handler is suspended at;          *)
(* store_read, pool_lookup and store_err record what the handler has done. *)
(***************************************************************************)
IdleReq ==
    [pc |-> "idle", op |-> "none", user_hash |-> "",
     duration_hours |-> 0, available_asn |-> <<>>, leased_prefixes |-> {},
     store_read |-> FALSE, pool_lookup |-> FALSE, store_err |-> FALSE,
     status |-> 0, message |-> "", asn |-> <<>>,
     prefix |-> "", start_time |-> 0, end_time |-> 0,
     active_leases |-> {}, is_leased |-> FALSE,
     route |-> "", authorization |-> <<>>, kid |-> "", sub |-> "",
     jwks_fetched |-> FALSE, jwks_err |-> FALSE,
     todo |-> {}, entries |-> {}, lookup |-> "none",
     user_id |-> "", email |-> <<>>, prefixes |-> {}, mappings |-> {},
     body |-> <<>>, rows_updated |-> {}]

\* the handler returns (StatusCode, body)
Respond(r, status, message) ==
    [r EXCEPT !.pc = "done", !.status = status, !.message = message]

\* Err(StatusCode): the status with an empty body
RespondStatus(r, status) == Respond(r, status, "")

\* Err((StatusCode, Json(json!({"error": .., "message": ..}))))
RespondJson(r, status, error, message) ==
    [Respond(r, status, message) EXCEPT
        !.body = <<[error |-> error, message |-> message]>>]

(***************************************************************************)
(* The schema (migrations): user_hash is a unique key of user_asn_mappings *)
(* (the ON CONFLICT (user_hash) clause needs it); no constraint makes asn  *)
(* unique, and none keeps two leases of one prefix from overlapping.       *)
(***************************************************************************)
asn_unique_key == FALSE
lease_exclusion_constraint == FALSE

(***************************************************************************)
(* Database queries                                                        *)
(***************************************************************************)
\* SELECT * FROM user_asn_mappings WHERE user_hash = $1  (fetch_optional)
get_user_asn(rows, user_hash) ==
    LET found == {m \in rows : m.user_hash = user_hash}
    IN IF found = {} THEN <<>> ELSE <<CHOOSE m \in found : TRUE>>

\* SELECT * FROM user_asn_mappings, as find_available_asn reads it: the
\* asn of every mapping
assigned_asns(rows) == {m.asn : m \in rows}

\* the INSERT written without its ON CONFLICT clause and without a unique
\* key on user_hash: a second row for the same user_hash
insert_without_conflict(rows, user_hash, asn) ==
    LET row == [user_hash |-> user_hash, asn |-> asn]
    IN [rows |-> rows \cup {row}, returned |-> row, updated |-> {}]

\* ON CONFLICT (user_hash) DO UPDATE SET asn = EXCLUDED.asn: the later
\* writer overwrites the committed asn
insert_overwriting(rows, user_hash, asn) ==
    LET row == [user_hash |-> user_hash, asn |-> asn]
    IN [rows |-> {m \in rows : m.user_hash # user_hash} \cup {row},
        returned |-> row,
        updated |-> {m \in rows : m.user_hash = user_hash}]

\* INSERT INTO user_asn_mappings (user_hash, asn) VALUES ($1, $2)
\* ON CONFLICT (user_hash) DO UPDATE SET updated_at = NOW() RETURNING *
\* On a conflict only updated_at of the existing row is written, a column
\* no query of the program reads and the rows of the model do not carry:
\* updated names the existing rows the statement wrote.
insert_user_asn(rows, user_hash, asn) ==
    LET old == get_user_asn(rows, user_hash)
    IN IF old # <<>>
       THEN [rows |-> rows, returned |-> old[1], updated |-> {old[1]}]
       ELSE LET row == [user_hash |-> user_hash, asn |-> asn]
            IN [rows |-> rows \cup {row}, returned |-> row, updated |-> {}]

(***************************************************************************)
(* AsnPool                                                                 *)
(***************************************************************************)
RECURSIVE scan_asns(_, _, _)
\* for asn in from..=to { if !assigned.contains(&asn) { return Some(asn) } } None
scan_asns(from, to, assigned) ==
    IF from > to THEN <<>>
    ELSE IF from \notin assigned THEN <<from>>
    ELSE scan_asns(from + 1, to, assigned)

\* the scan with the range taken one too far (start..=end + 1)
find_available_asn_past_end(assigned) ==
    scan_asns(asn_pool_start, asn_pool_end + 1, assigned)

RECURSIVE scan_asns_down(_, _, _)
scan_asns_down(from, to, assigned) ==
    IF to < from THEN <<>>
    ELSE IF to \notin assigned THEN <<to>>
    ELSE scan_asns_down(from, to - 1, assigned)

\* the scan run from the top of the range (highest free value first)
find_available_asn_highest(assigned) ==
    scan_asns_down(asn_pool_start, asn_pool_end, assigned)

\* the loop over start..end, without the last value
AsnPool_find_available_asn_exclusive(self, assigned) ==
    scan_asns(self.start, self.end - 1, assigned)

\* AsnPool::find_available_asn of the pool self, after the read of the
\* assigned ASNs: for asn in self.start..=self.end
AsnPool_find_available_asn(self, assigned) ==
    scan_asns(self.start, self.end, assigned)

\* the scan over the occupancy of an empty store, whatever was read
find_available_asn_of_empty_store(assigned) ==
    scan_asns(asn_pool_start, asn_pool_end, {})

\* the scan that takes the second value of the range first, when it is free
find_available_asn_second_first(assigned) ==
    IF asn_pool_start + 1 <= asn_pool_end /\ asn_pool_start + 1 \notin assigned
    THEN <<asn_pool_start + 1>>
    ELSE scan_asns(asn_pool_start, asn_pool_end, assigned)

\* AsnPool::find_available_asn, after the read of the assigned ASNs
find_available_asn(assigned) ==
    scan_asns(asn_pool_start, asn_pool_end, assigned)



(***************************************************************************)
(* prefix_leases queries and PrefixPool                                    *)
(***************************************************************************)
\* WHERE end_time >= NOW(): a lease still counted at the instant it ends
get_all_active_leases_inclusive(rows, t) == {l \in rows : l.end_time >= t}

\* SELECT ... FROM prefix_leases WHERE end_time > NOW()
get_all_active_leases(rows, t) == {l \in rows : l.end_time > t}

\* WHERE user_hash = $1 AND end_time >= NOW()
get_active_user_leases_inclusive(rows, user_hash, t) ==
    {l \in rows : l.user_hash = user_hash /\ l.end_time >= t}

\* SELECT ... FROM prefix_leases WHERE user_hash = $1 AND end_time > NOW()
get_active_user_leases(rows, user_hash, t) ==
    {l \in rows : l.user_hash = user_hash /\ l.end_time > t}

\* SELECT COUNT(*) FROM prefix_leases
\* WHERE prefix = $1::cidr AND end_time > NOW();  count > 0
is_prefix_leased(rows, prefix, t) ==
    Cardinality({l \in rows : /\ l.prefix = Ipv6Net_to_string(prefix)
                              /\ l.end_time > t}) > 0

\* PrefixLeaseResponse { prefix, start_time, end_time } of each lease
lease_responses(leases) ==
    {[prefix |-> l.prefix, start_time |-> l.start_time, end_time |-> l.end_time] :
        l \in leases}

\* active_leases.iter().filter_map(|lease| Ipv6Net::from_str(&lease.prefix).ok())
parse_leased_prefixes(active_leases) ==
    {Ipv6Net_from_str(l.prefix)[1] :
        l \in {x \in active_leases : Ipv6Net_from_str(x.prefix) # <<>>}}

RECURSIVE scan_prefixes(_, _)
\* for prefix in &self.prefixes { if !leased.contains(prefix) { return Some(*prefix) } } None
scan_prefixes(i, leased) ==
    IF i > Len(prefixes) THEN <<>>
    ELSE IF prefixes[i] \notin leased THEN <<prefixes[i]>>
    ELSE scan_prefixes(i + 1, leased)

\* the scan that falls back to the first pool entry instead of None
find_available_prefix_never_none(leased) ==
    IF scan_prefixes(1, leased) = <<>> THEN <<prefixes[1]>>
    ELSE scan_prefixes(1, leased)

\* the scan without the membership test: always the first pool entry
find_available_prefix_first(leased) == <<prefixes[1]>>

\* PrefixPool::find_available_prefix
find_available_prefix(leased) == scan_prefixes(1, leased)

RECURSIVE scan_pool_back(_, _, _)
scan_pool_back(pool, i, leased) ==
    IF i < 1 THEN <<>>
    ELSE IF pool[i] \notin leased THEN <<pool[i]>>
    ELSE scan_pool_back(pool, i - 1, leased)

\* the scan from the end of the list
PrefixPool_find_available_prefix_from_end(self, leased_prefixes) ==
    scan_pool_back(self, Len(self), leased_prefixes)

RECURSIVE scan_pool(_, _, _)
\* for prefix in &self.prefixes { if !leased_prefixes.contains(prefix) {..} }
scan_pool(pool, i, leased) ==
    IF i > Len(pool) THEN <<>>
    ELSE IF pool[i] \notin leased THEN <<pool[i]>>
    ELSE scan_pool(pool, i + 1, leased)

\* PrefixPool::find_available_prefix of the pool self
PrefixPool_find_available_prefix(self, leased_prefixes) ==
    scan_pool(self, 1, leased_prefixes)

\* the bound check with the lower bound off by one
duration_rejected_below_zero(duration_hours) ==
    duration_hours < 0 \/ duration_hours > MaxDurationHours

\* request.duration_hours < 1 || request.duration_hours > 24
duration_rejected(duration_hours) ==
    duration_hours < MinDurationHours \/ duration_hours > MaxDurationHours

\* the end of the term set to its start
lease_end_time_at_start(start_time, duration_hours) == start_time

\* chrono::Duration::days in place of hours
lease_end_time_days(start_time, duration_hours) == start_time + 24 * duration_hours

\* start_time + chrono::Duration::hours(duration_hours as i64)
lease_end_time(start_time, duration_hours) == start_time + duration_hours


\* the row with the first block of the pool, whatever the scan found
new_lease_of_first_block(id, user_hash, prefix, duration_hours, t) ==
    [id |-> id, user_hash |-> user_hash, prefix |-> Ipv6Net_to_string(prefixes[1]),
     start_time |-> t, end_time |-> lease_end_time(t, duration_hours)]
\* the row create_prefix_lease inserts and gets back (RETURNING ...)
new_lease(id, user_hash, prefix, duration_hours, t) ==
    [id |-> id, user_hash |-> user_hash, prefix |-> Ipv6Net_to_string(prefix),
     start_time |-> t, end_time |-> lease_end_time(t, duration_hours)]

\* the DELETE with the comparison including the seventh day's end
cleanup_expired_leases_from_seventh_day(rows, t) ==
    {l \in rows : ~(l.end_time <= t - RetentionHours)}

\* DELETE FROM prefix_leases WHERE end_time < NOW() - INTERVAL '7 days'
cleanup_expired_leases(rows, t) ==
    {l \in rows : ~(l.end_time < t - RetentionHours)}

\* would the insert break a uniqueness constraint on asn
asn_key_violation(rows, user_hash, asn) ==
    /\ asn_unique_key
    /\ \E m \in rows : m.asn = asn /\ m.user_hash # user_hash

\* would the insert break an exclusion constraint on (prefix, lease window)
lease_exclusion_violation(rows, lease) ==
    /\ lease_exclusion_constraint
    /\ \E l \in rows : /\ l.prefix = lease.prefix
                       /\ l.start_time < lease.end_time
                       /\ lease.start_time < l.end_time

(***************************************************************************)
(* Initial state: both tables empty, no request in flight                  *)
(***************************************************************************)
Init ==
    /\ user_asn_mappings = {}
    /\ prefix_leases = {}
    /\ lease_seq = 0
    /\ now = 0
    /\ ticks = 0
    /\ req = [s \in Slots |-> IdleReq]
    /\ response = IdleReq
    /\ app_state = ConfiguredState

Free(s) == req[s].pc = "idle"

\* Slots are interchangeable: a new request takes the lowest free one.
Accepts(s) == Free(s) /\ \A o \in Slots : o < s => ~Free(o)

\* no request is in flight
Quiescent == \A s \in Slots : Free(s)

\* What is kept of a finished request: status, message and body of the
\* response, the request body (duration_hours) and what the handler did;
\* for a success also the handle served and the ASN it asked the store for.
response_of(r) ==
    IF r.status = 200
    THEN [r EXCEPT !.leased_prefixes = {}]
    ELSE [IdleReq EXCEPT !.pc = "done", !.op = r.op,
                         !.duration_hours = r.duration_hours,
                         !.status = r.status, !.message = r.message,
                         !.store_read = r.store_read,
                         !.pool_lookup = r.pool_lookup,
                         !.store_err = r.store_err,
                         !.route = r.route,
                         !.authorization = r.authorization,
                         !.jwks_fetched = r.jwks_fetched,
                         !.jwks_err = r.jwks_err,
                         !.body = r.body]

\* the request of slot s ends with response r
Return(s, r) ==
    /\ response' = response_of(r)
    /\ req' = [req EXCEPT ![s] = IdleReq]

\* the request of slot s goes on as r; the step sends no response
Continue(s, r) ==
    /\ req' = [req EXCEPT ![s] = r]
    /\ response' = IdleReq

(***************************************************************************)
(* request_asn                                                             *)
(***************************************************************************)
\* handler entry: hash the subject, then get_user_asn
RequestAsnEntry(s, sub) ==
    /\ LET h == hash_user_identifier(sub)
           r == [req[s] EXCEPT !.op = "request_asn", !.user_hash = h,
                               !.store_read = TRUE]
           existing == get_user_asn(user_asn_mappings, h)
       IN \/ Return(s, RespondJson([r EXCEPT !.store_err = TRUE], 500, 500,
                               "Failed to check ASN assignment"))
          \/ /\ existing # <<>>
             /\ Return(s, Respond([r EXCEPT !.asn = <<existing[1].asn>>], 200,
                                  "ASN already assigned"))
          \/ /\ existing = <<>>
             /\ Continue(s, [r EXCEPT !.pc = "find_available_asn"])
    /\ UNCHANGED <<user_asn_mappings, prefix_leases, lease_seq, now, ticks, app_state>>

\* request_asn called for an authenticated subject
AsnGetUserAsn(s, sub) == Accepts(s) /\ RequestAsnEntry(s, sub)

\* find_available_asn: get_all_user_mappings (the SELECT of the mappings and
\* one SELECT of active leases per mapping), then the scan of the range
AsnFindAvailable(s) ==
    /\ req[s].pc = "find_available_asn"
    /\ LET r == [req[s] EXCEPT !.pool_lookup = TRUE]
           found == find_available_asn(assigned_asns(user_asn_mappings))
       IN \/ Return(s, RespondJson([r EXCEPT !.store_err = TRUE], 500, 500,
                               "Failed to check ASN availability"))
          \/ /\ found = <<>>
             /\ Return(s, RespondJson(r, 503, 503, "No available ASNs at this time"))
          \/ /\ found # <<>>
             /\ Continue(s, [r EXCEPT !.pc = "get_or_create_select",
                                      !.available_asn = found])
    /\ UNCHANGED <<user_asn_mappings, prefix_leases, lease_seq, now, ticks, app_state>>

\* get_or_create_user_asn, first statement: SELECT the existing mapping
AsnSelectExisting(s) ==
    /\ req[s].pc = "get_or_create_select"
    /\ LET r == req[s]
           existing == get_user_asn(user_asn_mappings, r.user_hash)
       IN \/ Return(s, RespondJson([r EXCEPT !.store_err = TRUE], 500, 500,
                               "Failed to assign ASN"))
          \/ /\ existing # <<>>
             /\ Return(s, Respond([r EXCEPT !.asn = <<existing[1].asn>>], 200,
                                  "ASN assigned successfully"))
          \/ /\ existing = <<>>
             /\ Continue(s, [r EXCEPT !.pc = "get_or_create_insert"])
    /\ UNCHANGED <<user_asn_mappings, prefix_leases, lease_seq, now, ticks, app_state>>

\* get_or_create_user_asn, second statement: the INSERT ... ON CONFLICT
AsnInsert(s) ==
    /\ req[s].pc = "get_or_create_insert"
    /\ LET r == req[s]
           res == insert_user_asn(user_asn_mappings, r.user_hash,
                                  r.available_asn[1])
       IN \/ /\ Return(s, RespondJson([r EXCEPT !.store_err = TRUE], 500, 500,
                                  "Failed to assign ASN"))
             /\ UNCHANGED user_asn_mappings
          \/ /\ ~asn_key_violation(user_asn_mappings, r.user_hash,
                                   r.available_asn[1])
             /\ user_asn_mappings' = res.rows
             /\ Return(s, Respond([r EXCEPT !.asn = <<res.returned.asn>>,
                                            !.rows_updated = res.updated], 200,
                                  "ASN assigned successfully"))
    /\ UNCHANGED <<prefix_leases, lease_seq, now, ticks, app_state>>

(***************************************************************************)
(* request_prefix                                                          *)
(***************************************************************************)
\* every entry of the pool is in leased
PoolExhausted(leased) == \A i \in 1 .. Len(prefixes) : prefixes[i] \in leased

\* prefix requests in flight that may still insert a lease
PendingLeases ==
    Cardinality({s \in Slots : /\ req[s].pc = "create_prefix_lease"
                               /\ ~PoolExhausted(req[s].leased_prefixes)})

\* handler entry: hash the subject, validate the duration, then
\* get_all_active_leases
RequestPrefixEntry(s, sub, duration_hours) ==
    /\ LET h == hash_user_identifier(sub)
           r == [req[s] EXCEPT !.op = "request_prefix", !.user_hash = h,
                                !.duration_hours = duration_hours]
           read == [r EXCEPT !.store_read = TRUE]
           active_leases == get_all_active_leases(prefix_leases, now)
       IN \/ /\ duration_rejected(duration_hours)
             /\ Return(s, RespondJson(r, 400, 400,
                                  "Duration must be between 1 and 24 hours"))
          \/ /\ ~duration_rejected(duration_hours)
             /\ Return(s, RespondJson([read EXCEPT !.store_err = TRUE], 500, 500,
                                  "Failed to check available prefixes"))
          \/ /\ ~duration_rejected(duration_hours)
             \* at most MaxLeases rows are ever inserted: a request that
             \* will find a free prefix is taken only while there is room
             /\ \/ lease_seq + PendingLeases < MaxLeases
                \/ PoolExhausted(parse_leased_prefixes(active_leases))
             /\ Continue(s, [read EXCEPT
                    !.pc = "create_prefix_lease",
                    !.leased_prefixes = parse_leased_prefixes(active_leases)])
    /\ UNCHANGED <<user_asn_mappings, prefix_leases, lease_seq, now, ticks, app_state>>

\* find_available_prefix on the leases read, then create_prefix_lease
PrefixGetActiveLeases(s, sub, duration_hours) ==
    Accepts(s) /\ RequestPrefixEntry(s, sub, duration_hours)

PrefixCreateLease(s) ==
    /\ req[s].pc = "create_prefix_lease"
    /\ LET r == [req[s] EXCEPT !.pool_lookup = TRUE]
           available_prefix == find_available_prefix(r.leased_prefixes)
           lease == new_lease(lease_seq + 1, r.user_hash, available_prefix[1],
                              r.duration_hours, now)
       IN \/ /\ available_prefix = <<>>
             /\ Return(s, RespondJson(r, 503, 503, "No available prefixes at this time"))
             /\ UNCHANGED <<prefix_leases, lease_seq>>
          \/ /\ available_prefix # <<>>
             /\ Return(s, RespondJson([r EXCEPT !.store_err = TRUE], 500, 500,
                                  "Failed to create prefix lease"))
             /\ UNCHANGED <<prefix_leases, lease_seq>>
          \/ /\ available_prefix # <<>>
             /\ ~lease_exclusion_violation(prefix_leases, lease)
             /\ prefix_leases' = prefix_leases \cup {lease}
             /\ lease_seq' = lease_seq + 1
             /\ Return(s, Respond([r EXCEPT !.prefix = lease.prefix,
                                            !.start_time = lease.start_time,
                                            !.end_time = lease.end_time], 200,
                                  "Prefix leased successfully"))
    /\ UNCHANGED <<user_asn_mappings, now, ticks, app_state>>

(***************************************************************************)
(* get_user_info (GET /api/user/info) and Database::is_prefix_leased       *)
(***************************************************************************)
\* handler entry: hash the subject; Database::get_user_info, first query
\* (get_user_asn)
GetUserInfoEntry(s, sub) ==
    /\ LET h == hash_user_identifier(sub)
           r == [req[s] EXCEPT !.op = "get_user_info", !.user_hash = h,
                               !.store_read = TRUE]
           asn_mapping == get_user_asn(user_asn_mappings, h)
       IN \/ Return(s, RespondJson([r EXCEPT !.store_err = TRUE], 500, 500,
                               "Failed to retrieve user information"))
          \/ Continue(s, [r EXCEPT
                 !.pc = "get_active_user_leases",
                 !.asn = IF asn_mapping = <<>> THEN <<>>
                         ELSE <<asn_mapping[1].asn>>])
    /\ UNCHANGED <<user_asn_mappings, prefix_leases, lease_seq, now, ticks, app_state>>

\* get_user_info called for an authenticated subject
GetUserInfoAsn(s, sub) == Accepts(s) /\ GetUserInfoEntry(s, sub)

\* Database::get_user_info, second query (get_active_user_leases), then the
\* UserInfoResponse
GetUserInfoLeases(s) ==
    /\ req[s].pc = "get_active_user_leases"
    /\ req[s].op = "get_user_info"
    /\ LET r == req[s]
           leases == get_active_user_leases(prefix_leases, r.user_hash, now)
       IN \/ Return(s, RespondJson([r EXCEPT !.store_err = TRUE], 500, 500,
                               "Failed to retrieve user information"))
          \/ Return(s, Respond([r EXCEPT !.active_leases = lease_responses(leases)],
                               200, ""))
    /\ UNCHANGED <<user_asn_mappings, prefix_leases, lease_seq, now, ticks, app_state>>

\* Database::is_prefix_leased(prefix); the answer is kept in response
IsPrefixLeased(prefix) ==
    /\ response' = [IdleReq EXCEPT
                       !.pc = "done", !.op = "is_prefix_leased",
                       !.prefix = Ipv6Net_to_string(prefix),
                       !.store_read = TRUE,
                       !.is_leased = is_prefix_leased(prefix_leases, prefix, now)]
    /\ UNCHANGED <<user_asn_mappings, prefix_leases, lease_seq, now, ticks, req, app_state>>

(***************************************************************************)
(* jwt_middleware, the layer on the end-user routes                        *)
(***************************************************************************)
\* HeaderValue::to_str: Err when a byte is not visible ASCII
NonAscii == "\\xe9"
to_str(h) == IF \E i \in 1 .. Len(h) : h[i] = NonAscii THEN <<>> ELSE <<h>>

\* headers().get("authorization").and_then(|h| h.to_str().ok())
\*     .and_then(|s| s.strip_prefix("Bearer "))
bearer_token(authorization) ==
    IF authorization = <<>> THEN <<>>
    ELSE IF to_str(authorization[1]) = <<>> THEN <<>>
    ELSE strip_prefix(to_str(authorization[1])[1], Bearer)

\* the issuer and the signing key of the identity provider, and a key the
\* provider does not publish
ProviderIssuer == "https://idp/oidc"
ProviderKid == "kid-1"
ForeignKid == "kid-9"

\* The tokens of the model, by their text: what the JOSE header and the
\* claims of each say, and the key its signature was made with.
\*   A, B  tokens of alice and bob, in order
\*   X     not a JWT
\*   N     in order but for the missing kid of its header
\*   U     signed with a key the provider does not publish
\*   S     names the provider's key, signed with another
\*   I     of another issuer
\*   E     expired
Jwt(token) ==
    LET good == [wellformed |-> TRUE, kid |-> <<ProviderKid>>,
                 signed_with |-> ProviderKid, iss |-> ProviderIssuer,
                 exp |-> 1000000, sub |-> "alice"]
    IN CASE token = <<"A">> -> good
         [] token = <<"B">> -> [good EXCEPT !.sub = "bob"]
         [] token = <<"N">> -> [good EXCEPT !.kid = <<>>]
         [] token = <<"U">> -> [good EXCEPT !.kid = <<ForeignKid>>,
                                            !.signed_with = ForeignKid]
         [] token = <<"S">> -> [good EXCEPT !.signed_with = ForeignKid]
         [] token = <<"I">> -> [good EXCEPT !.iss = "https://other/oidc"]
         [] token = <<"E">> -> [good EXCEPT !.exp = -1]
         [] OTHER -> [good EXCEPT !.wellformed = FALSE]

\* decode_header taking a header without kid for one of the provider's key
decode_header_default_kid(token) ==
    IF ~Jwt(token).wellformed THEN <<>>
    ELSE <<[kid |-> <<ProviderKid>>]>>

\* jsonwebtoken::decode_header(token): Err (None here) or the header
decode_header(token) ==
    IF ~Jwt(token).wellformed THEN <<>>
    ELSE <<[kid |-> Jwt(token).kid]>>

\* the key set the provider publishes, by key id (fetch_jwks, Ok case)
ProviderKeys == {ProviderKid}

\* decode without the expiry check
decode_ignoring_expiry(token, key, issuer, t) ==
    IF /\ Jwt(token).wellformed
       /\ Jwt(token).signed_with = key
       /\ Jwt(token).iss = issuer
    THEN <<[sub |-> Jwt(token).sub]>>
    ELSE <<>>

\* decode::<AuthInfo>(token, decoding_key, &validation) with RS256 and
\* set_issuer(&[issuer]): signature, issuer and expiry; Err is None here
decode(token, key, issuer, t) ==
    IF /\ Jwt(token).wellformed
       /\ Jwt(token).signed_with = key
       /\ Jwt(token).iss = issuer
       /\ Jwt(token).exp >= t
    THEN <<[sub |-> Jwt(token).sub]>>
    ELSE <<>>

\* a development principal without a subject
dev_auth_info_anonymous == [sub |-> ""]

\* the AuthInfo made up when validation is bypassed
dev_auth_info == [sub |-> "dev-user"]

\* a request arrives on an end-user route: the middleware up to its await
\* of fetch_jwks, or, bypassed, up to next.run
\* the middleware with the configuration looked at before the header
JwtMiddleware_settings_first(s, route, authorization) ==
    /\ Accepts(s)
    /\ LET r == [req[s] EXCEPT !.route = route, !.authorization = authorization]
           token == bearer_token(authorization)
           header == decode_header(token[1])
       IN IF app_state.bypass_jwt_validation
          THEN Continue(s, [r EXCEPT !.pc = "next_run", !.sub = dev_auth_info.sub])
          ELSE IF app_state.logto_jwks_uri = <<>> THEN Return(s, RespondStatus(r, 500))
          ELSE IF app_state.logto_issuer = <<>> THEN Return(s, RespondStatus(r, 500))
          ELSE IF token = <<>> THEN Return(s, RespondStatus(r, 401))
          ELSE IF header = <<>> THEN Return(s, RespondStatus(r, 401))
          ELSE IF header[1].kid = <<>> THEN Return(s, RespondStatus(r, 401))
          ELSE Continue(s, [r EXCEPT !.pc = "fetch_jwks", !.kid = header[1].kid[1]])
    /\ UNCHANGED <<user_asn_mappings, prefix_leases, lease_seq, now, ticks, app_state>>

JwtMiddleware(s, route, authorization) ==
    /\ Accepts(s)
    /\ LET r == [req[s] EXCEPT !.route = route, !.authorization = authorization]
           token == bearer_token(authorization)
           header == decode_header(token[1])
       IN IF app_state.bypass_jwt_validation
          THEN Continue(s, [r EXCEPT !.pc = "next_run", !.sub = dev_auth_info.sub])
          ELSE IF token = <<>> THEN Return(s, RespondStatus(r, 401))
          ELSE IF app_state.logto_jwks_uri = <<>> THEN Return(s, RespondStatus(r, 500))
          ELSE IF app_state.logto_issuer = <<>> THEN Return(s, RespondStatus(r, 500))
          ELSE IF header = <<>> THEN Return(s, RespondStatus(r, 401))
          ELSE IF header[1].kid = <<>> THEN Return(s, RespondStatus(r, 401))
          ELSE Continue(s, [r EXCEPT !.pc = "fetch_jwks", !.kid = header[1].kid[1]])
    /\ UNCHANGED <<user_asn_mappings, prefix_leases, lease_seq, now, ticks, app_state>>

\* fetch_jwks returns: the key lookup, the validation of the token, next.run
JwtFetchJwks(s) ==
    /\ req[s].pc = "fetch_jwks"
    /\ LET r == [req[s] EXCEPT !.jwks_fetched = TRUE]
           token == bearer_token(r.authorization)[1]
           token_data == decode(token, r.kid, app_state.logto_issuer[1], now)
       IN \/ Return(s, RespondStatus([r EXCEPT !.jwks_err = TRUE], 500))
          \/ IF r.kid \notin ProviderKeys THEN Return(s, RespondStatus(r, 401))
             ELSE IF token_data = <<>> THEN Return(s, RespondStatus(r, 401))
             ELSE Continue(s, [r EXCEPT !.pc = "next_run",
                                        !.sub = token_data[1].sub])
    /\ UNCHANGED <<user_asn_mappings, prefix_leases, lease_seq, now, ticks, app_state>>

\* next.run(request): the handler of the route, with the AuthInfo inserted
RunRequestPrefix(s, duration_hours) ==
    /\ req[s].pc = "next_run"
    /\ req[s].route = "/user/prefix"
    /\ RequestPrefixEntry(s, req[s].sub, duration_hours)

RunRequestAsn(s) ==
    /\ req[s].pc = "next_run"
    /\ req[s].route = "/user/asn"
    /\ RequestAsnEntry(s, req[s].sub)

RunGetUserInfo(s) ==
    /\ req[s].pc = "next_run"
    /\ req[s].route = "/user/info"
    /\ GetUserInfoEntry(s, req[s].sub)

(***************************************************************************)
(* The service routes: validate_agent_key, get_user_mapping,               *)
(* get_all_mappings                                                        *)
(***************************************************************************)
\* asn_mapping.user_id: the subject request_asn stored with the row
\* (get_or_create_user_asn(&user_hash, Some(&auth_info.sub), ..))
user_id_of(asn_mapping) ==
    LET known == {u \in Subjects \cup {dev_auth_info.sub} :
                     hash_user_identifier(u) = asn_mapping.user_hash}
    IN IF known = {} THEN <<>> ELSE <<CHOOSE u \in known : TRUE>>

\* Database::get_user_info: Ok(Some((asn_mapping, leases))) in every case
get_user_info(asn_mapping, leases) ==
    <<[asn_mapping |-> asn_mapping, leases |-> leases]>>

\* primaryEmail of a user at the identity provider: alice has one, the
\* others have none
primary_email(user_id) ==
    CASE user_id = "alice" -> <<"alice@example.org">>
      [] OTHER -> <<>>

\* how a call of get_user_email ends: Ok with the primaryEmail of the user,
\* or an error (token request, user request, status, parsing)
EmailOutcomes == {"ok", "error"}

\* match get_user_email(..).await { Ok(email) => email, Err(e) => None }
email_of(user_id, outcome) ==
    IF outcome = "ok" THEN primary_email(user_id) ELSE <<>>

\* is the lookup made: if let (Some(user_id), Some(api_url), Some(app_id),
\* Some(app_secret)) = (..)
email_lookup_configured(asn_mapping, state) ==
    /\ user_id_of(asn_mapping) # <<>>
    /\ state.logto_management_api # <<>>
    /\ state.logto_m2m_app_id # <<>>
    /\ state.logto_m2m_app_secret # <<>>

\* the response object built only when the email is known
user_mapping_response_needing_email(asn_mapping, leases, email) ==
    [user_hash |-> asn_mapping.user_hash,
     user_id |-> IF user_id_of(asn_mapping) = <<>> THEN ""
                 ELSE user_id_of(asn_mapping)[1],
     email |-> email,
     asn |-> IF email = <<>> THEN 0 ELSE asn_mapping.asn,
     prefixes |-> IF email = <<>> THEN {} ELSE {l.prefix : l \in leases}]

\* UserMappingResponse { user_hash, user_id, email, asn, prefixes }
user_mapping_response(asn_mapping, leases, email) ==
    [user_hash |-> asn_mapping.user_hash,
     user_id |-> IF user_id_of(asn_mapping) = <<>> THEN ""
                 ELSE user_id_of(asn_mapping)[1],
     email |-> email,
     asn |-> asn_mapping.asn,
     prefixes |-> {l.prefix : l \in leases}]

\* the middleware accepting any Bearer token
agent_key_matches_any_bearer(authorization, agent_key) ==
    bearer_token(authorization) # <<>>

\* match auth_header { Some(key) if key == state.agent_key => .. }
agent_key_matches(authorization, agent_key) ==
    /\ bearer_token(authorization) # <<>>
    /\ bearer_token(authorization)[1] = agent_key

\* a request arrives on a service route: validate_agent_key
\* the agent-key check left out while the end-user validation is bypassed
ValidateAgentKey_unless_bypassed(s, route, authorization, user_hash) ==
    /\ Accepts(s)
    /\ LET r == [req[s] EXCEPT !.route = route, !.authorization = authorization,
                               !.user_hash = user_hash]
       IN IF \/ app_state.bypass_jwt_validation
             \/ agent_key_matches(authorization, app_state.agent_key)
          THEN Continue(s, [r EXCEPT !.pc = "next_run"])
          ELSE Return(s, RespondStatus(r, 401))
    /\ UNCHANGED <<user_asn_mappings, prefix_leases, lease_seq, now, ticks, app_state>>

ValidateAgentKey(s, route, authorization, user_hash) ==
    /\ Accepts(s)
    /\ LET r == [req[s] EXCEPT !.route = route, !.authorization = authorization,
                               !.user_hash = user_hash]
       IN IF agent_key_matches(authorization, app_state.agent_key)
          THEN Continue(s, [r EXCEPT !.pc = "next_run"])
          ELSE Return(s, RespondStatus(r, 401))
    /\ UNCHANGED <<user_asn_mappings, prefix_leases, lease_seq, now, ticks, app_state>>

\* get_user_mapping: Database::get_user_info, first query (get_user_asn)
RunGetUserMapping(s) ==
    /\ req[s].pc = "next_run"
    /\ req[s].route = "/mappings/{user_hash}"
    /\ LET r == [req[s] EXCEPT !.op = "get_user_mapping", !.store_read = TRUE]
           asn_mapping == get_user_asn(user_asn_mappings, r.user_hash)
       IN \/ Return(s, RespondJson([r EXCEPT !.store_err = TRUE], 500, 500,
                               "Failed to retrieve user mapping"))
          \/ Continue(s, [r EXCEPT !.pc = "get_active_user_leases",
                                   !.entries = {m \in user_asn_mappings :
                                                   <<m>> = asn_mapping}])
    /\ UNCHANGED <<user_asn_mappings, prefix_leases, lease_seq, now, ticks, app_state>>

\* get_user_mapping: second query (get_active_user_leases), then the match
\* on the result of get_user_info
GetUserMappingLeases(s) ==
    /\ req[s].pc = "get_active_user_leases"
    /\ req[s].op = "get_user_mapping"
    /\ LET r == req[s]
           leases == get_active_user_leases(prefix_leases, r.user_hash, now)
           asn_mapping == IF r.entries = {} THEN <<>>
                          ELSE <<CHOOSE m \in r.entries : TRUE>>
           info == get_user_info(asn_mapping, leases)
       IN \/ Return(s, RespondJson([r EXCEPT !.store_err = TRUE], 500, 500,
                               "Failed to retrieve user mapping"))
          \/ IF info = <<>>
             THEN Return(s, RespondJson(r, 404, 404, "User not found"))
             ELSE IF info[1].asn_mapping = <<>>
             THEN Return(s, RespondJson(r, 404, 404, "User has no ASN assigned"))
             ELSE LET m == info[1].asn_mapping[1]
                      body == user_mapping_response(m, info[1].leases, <<>>)
                      found == [r EXCEPT !.user_id = body.user_id,
                                         !.asn = <<body.asn>>,
                                         !.prefixes = body.prefixes]
                  IN IF email_lookup_configured(m, app_state)
                     THEN Continue(s, [found EXCEPT !.pc = "get_user_email",
                                                    !.entries = {[asn_mapping |-> m,
                                                                  leases |-> info[1].leases]}])
                     ELSE Return(s, Respond([found EXCEPT !.entries = {}], 200, ""))
    /\ UNCHANGED <<user_asn_mappings, prefix_leases, lease_seq, now, ticks, app_state>>

\* get_user_mapping: get_user_email returns, then the response
GetUserMappingEmail(s) ==
    /\ req[s].pc = "get_user_email"
    /\ req[s].op = "get_user_mapping"
    /\ \E outcome \in EmailOutcomes :
          LET r == req[s]
              e == CHOOSE x \in r.entries : TRUE
              body == user_mapping_response(e.asn_mapping, e.leases,
                          email_of(r.user_id, outcome))
          IN Return(s, Respond([r EXCEPT !.lookup = outcome,
                                         !.entries = {},
                                         !.user_id = body.user_id,
                                         !.email = body.email,
                                         !.asn = <<body.asn>>,
                                         !.prefixes = body.prefixes], 200, ""))
    /\ UNCHANGED <<user_asn_mappings, prefix_leases, lease_seq, now, ticks, app_state>>

\* does any mapping of the list get an email lookup
any_lookup(entries, state) ==
    \E e \in entries : email_lookup_configured(e.asn_mapping, state)

\* the list of get_all_mappings, each mapping with the outcome of its lookup
\* the entries of the handles that hold an active lease only
mapping_responses_of_lease_holders(entries, state, outcome) ==
    {user_mapping_response(e.asn_mapping, e.leases,
         IF email_lookup_configured(e.asn_mapping, state)
         THEN email_of(user_id_of(e.asn_mapping)[1], outcome[e.asn_mapping.user_hash])
         ELSE <<>>) : e \in {x \in entries : x.leases # {}}}

mapping_responses(entries, state, outcome) ==
    {user_mapping_response(e.asn_mapping, e.leases,
         IF email_lookup_configured(e.asn_mapping, state)
         THEN email_of(user_id_of(e.asn_mapping)[1], outcome[e.asn_mapping.user_hash])
         ELSE <<>>) : e \in entries}

\* get_all_mappings: Database::get_all_user_mappings, the SELECT of the
\* ASN rows; with no row both loops are empty and the response follows
RunGetAllMappings(s) ==
    /\ req[s].pc = "next_run"
    /\ req[s].route = "/mappings"
    /\ LET r == [req[s] EXCEPT !.op = "get_all_mappings", !.store_read = TRUE]
       IN \/ Return(s, RespondJson([r EXCEPT !.store_err = TRUE], 500, 500,
                               "Failed to retrieve mappings"))
          \/ IF user_asn_mappings = {}
             THEN Return(s, Respond(r, 200, ""))
             ELSE Continue(s, [r EXCEPT !.pc = "get_active_user_leases",
                                       !.todo = user_asn_mappings])
    /\ UNCHANGED <<user_asn_mappings, prefix_leases, lease_seq, now, ticks, app_state>>

\* get_all_mappings: get_active_user_leases of one mapping of the list;
\* after the last one the email loop starts, or the response follows
GetAllMappingsLeases(s) ==
    /\ req[s].pc = "get_active_user_leases"
    /\ req[s].op = "get_all_mappings"
    /\ \E m \in req[s].todo :
          LET r == req[s]
              leases == get_active_user_leases(prefix_leases, m.user_hash, now)
              entries == r.entries \cup {[asn_mapping |-> m, leases |-> leases]}
              read == [r EXCEPT !.todo = r.todo \ {m}, !.entries = entries]
              none == [h \in {e.asn_mapping.user_hash : e \in entries} |-> "none"]
          IN \/ Return(s, RespondJson([r EXCEPT !.store_err = TRUE], 500, 500,
                                  "Failed to retrieve mappings"))
             \/ IF read.todo # {}
                THEN Continue(s, read)
                ELSE IF any_lookup(entries, app_state)
                THEN Continue(s, [read EXCEPT !.pc = "get_user_email"])
                ELSE Return(s, Respond([read EXCEPT !.entries = {},
                                   !.mappings = mapping_responses(entries, app_state, none)],
                                   200, ""))
    /\ UNCHANGED <<user_asn_mappings, prefix_leases, lease_seq, now, ticks, app_state>>

\* get_all_mappings: the calls of get_user_email return, then the response
GetAllMappingsEmails(s) ==
    /\ req[s].pc = "get_user_email"
    /\ req[s].op = "get_all_mappings"
    /\ \E outcome \in [{e.asn_mapping.user_hash : e \in req[s].entries} -> EmailOutcomes] :
          LET r == req[s]
          IN Return(s, Respond([r EXCEPT !.entries = {},
                 !.lookup = IF \E h \in DOMAIN outcome : outcome[h] = "error"
                            THEN "error" ELSE "ok",
                 !.mappings = mapping_responses(r.entries, app_state, outcome)],
                 200, ""))
    /\ UNCHANGED <<user_asn_mappings, prefix_leases, lease_seq, now, ticks, app_state>>

(***************************************************************************)
(* The pools by themselves: the scan applied to the pool of the state and  *)
(* the occupancy of the store                                              *)
(***************************************************************************)
FindAvailableAsn ==
    /\ response' = [IdleReq EXCEPT
           !.pc = "done", !.op = "find_available_asn", !.pool_lookup = TRUE,
           !.available_asn = AsnPool_find_available_asn(app_state.asn_pool,
                                 assigned_asns(user_asn_mappings))]
    /\ UNCHANGED <<user_asn_mappings, prefix_leases, lease_seq, now, ticks, req, app_state>>

FindAvailablePrefix ==
    /\ LET active_leases == get_all_active_leases(prefix_leases, now)
           found == PrefixPool_find_available_prefix(app_state.prefix_pool,
                        parse_leased_prefixes(active_leases))
       IN response' = [IdleReq EXCEPT
              !.pc = "done", !.op = "find_available_prefix", !.pool_lookup = TRUE,
              !.prefix = IF found = <<>> THEN "" ELSE Ipv6Net_to_string(found[1])]
    /\ UNCHANGED <<user_asn_mappings, prefix_leases, lease_seq, now, ticks, req, app_state>>

\* main: PrefixPool::from_file(&cli.prefix_pool_file) into the AppState
LoadPrefixPool ==
    /\ app_state' = [app_state EXCEPT
           !.prefix_pool = from_file(app_state.prefix_pool_file)]
    /\ response' = IdleReq
    /\ UNCHANGED <<user_asn_mappings, prefix_leases, lease_seq, now, ticks, req>>

(***************************************************************************)
(* A request dropped at an await point: the future of the handler is       *)
(* dropped, no further statement of it runs and no response is sent        *)
(***************************************************************************)
Cancel(s) ==
    /\ req[s].pc # "idle"
    /\ req' = [req EXCEPT ![s] = IdleReq]
    /\ response' = IdleReq
    /\ UNCHANGED <<user_asn_mappings, prefix_leases, lease_seq, now, ticks, app_state>>

(***************************************************************************)
(* Maintenance and the clock                                               *)
(***************************************************************************)
CleanupExpiredLeases ==
    /\ prefix_leases' = cleanup_expired_leases(prefix_leases, now)
    /\ response' = IdleReq
    /\ UNCHANGED <<user_asn_mappings, lease_seq, now, ticks, req, app_state>>

Tick(d) ==
    /\ ticks < MaxTicks
    /\ now' = now + d
    /\ ticks' = ticks + 1
    /\ response' = IdleReq
    /\ UNCHANGED <<user_asn_mappings, prefix_leases, lease_seq, req, app_state>>

(***************************************************************************)
(* ASN and prefix requests served concurrently                             *)
(***************************************************************************)
Next ==
    \/ \E s \in Slots, sub \in Subjects : AsnGetUserAsn(s, sub)
    \/ \E s \in Slots : AsnFindAvailable(s)
    \/ \E s \in Slots : AsnSelectExisting(s)
    \/ \E s \in Slots : AsnInsert(s)
    \/ \E s \in Slots, sub \in MixedLeaseSubjects, d \in MixedDurations :
          PrefixGetActiveLeases(s, sub, d)
    \/ \E s \in Slots : PrefixCreateLease(s)
    \/ CleanupExpiredLeases
    \/ \E d \in MixedTickSteps : ticks < MaxConcurrentTicks /\ Tick(d)

Spec == Init /\ [][Next]_vars

(***************************************************************************)
(* ASN and prefix requests served one at a time: a request starts only     *)
(* when none is in flight                                                  *)
(***************************************************************************)
NextSeq ==
    \/ \E s \in Slots, sub \in Subjects : Quiescent /\ AsnGetUserAsn(s, sub)
    \/ \E s \in Slots : AsnFindAvailable(s)
    \/ \E s \in Slots : AsnSelectExisting(s)
    \/ \E s \in Slots : AsnInsert(s)
    \/ \E s \in Slots, sub \in MixedLeaseSubjects, d \in MixedDurations :
          Quiescent /\ PrefixGetActiveLeases(s, sub, d)
    \/ \E s \in Slots : PrefixCreateLease(s)
    \/ CleanupExpiredLeases
    \/ \E d \in MixedTickSteps : Tick(d)

SpecSeq == Init /\ [][NextSeq]_vars

(***************************************************************************)
(* ASN requests alone, served concurrently                                 *)
(***************************************************************************)
NextAsn ==
    \/ \E s \in Slots, sub \in Subjects : AsnGetUserAsn(s, sub)
    \/ \E s \in Slots : AsnFindAvailable(s)
    \/ \E s \in Slots : AsnSelectExisting(s)
    \/ \E s \in Slots : AsnInsert(s)

SpecAsn == Init /\ [][NextAsn]_vars

(***************************************************************************)
(* Prefix requests alone, with the sweep and the clock: served             *)
(* concurrently, and served one at a time                                  *)
(***************************************************************************)
NextLease ==
    \/ \E s \in Slots, sub \in LeaseSubjects, d \in DurationInputs :
          PrefixGetActiveLeases(s, sub, d)
    \/ \E s \in Slots : PrefixCreateLease(s)
    \/ CleanupExpiredLeases
    \/ \E d \in ConcurrentTickSteps : ticks < MaxConcurrentTicks /\ Tick(d)

SpecLease == Init /\ [][NextLease]_vars

\* Requests for ASNs and prefixes overlapping, each of which may be dropped
\* at any of its await points and sent again.
NextRetry ==
    \/ \E s \in Slots, sub \in LeaseSubjects : AsnGetUserAsn(s, sub)
    \/ \E s \in Slots : AsnFindAvailable(s)
    \/ \E s \in Slots : AsnSelectExisting(s)
    \/ \E s \in Slots : AsnInsert(s)
    \/ \E s \in Slots, sub \in MixedLeaseSubjects, d \in MixedDurations :
          PrefixGetActiveLeases(s, sub, d)
    \/ \E s \in Slots : PrefixCreateLease(s)
    \/ \E s \in Slots : Cancel(s)

SpecRetry == Init /\ [][NextRetry]_vars

NextLeaseSeq ==
    \/ \E s \in Slots, sub \in LeaseSubjects, d \in DurationInputs :
          Quiescent /\ PrefixGetActiveLeases(s, sub, d)
    \/ \E s \in Slots : PrefixCreateLease(s)
    \/ CleanupExpiredLeases
    \/ \E d \in TickSteps : Tick(d)

SpecLeaseSeq == Init /\ [][NextLeaseSeq]_vars

(***************************************************************************)
(* Prefix requests and the lease queries (get_user_info, is_prefix_leased),*)
(* with the sweep and the clock; requests served one at a time             *)
(***************************************************************************)
NextInfo ==
    \/ \E s \in Slots, sub \in LeaseSubjects, d \in InfoDurations :
          Quiescent /\ PrefixGetActiveLeases(s, sub, d)
    \/ \E s \in Slots : PrefixCreateLease(s)
    \/ \E s \in Slots, sub \in LeaseSubjects : Quiescent /\ GetUserInfoAsn(s, sub)
    \/ \E s \in Slots : GetUserInfoLeases(s)
    \/ \E i \in 1 .. Len(prefixes) : IsPrefixLeased(prefixes[i])
    \/ CleanupExpiredLeases
    \/ \E d \in TickSteps : Tick(d)

SpecInfo == Init /\ [][NextInfo]_vars

\* Assignments and leases made one request at a time, with the cleanup and
\* a clock that steps by an hour or by the retention period.
NextMaintenance ==
    \/ \E s \in Slots, sub \in MixedLeaseSubjects : Quiescent /\ AsnGetUserAsn(s, sub)
    \/ \E s \in Slots : AsnFindAvailable(s)
    \/ \E s \in Slots : AsnSelectExisting(s)
    \/ \E s \in Slots : AsnInsert(s)
    \/ \E s \in Slots, sub \in LeaseSubjects, d \in MixedDurations :
          Quiescent /\ PrefixGetActiveLeases(s, sub, d)
    \/ \E s \in Slots : PrefixCreateLease(s)
    \/ CleanupExpiredLeases
    \/ \E d \in TickSteps : Tick(d)

SpecMaintenance == Init /\ [][NextMaintenance]_vars

(***************************************************************************)
(* The end-user routes behind jwt_middleware, for every way the process    *)
(* can be configured for it                                                *)
(***************************************************************************)
AuthStates ==
    {[ConfiguredState EXCEPT !.bypass_jwt_validation = b,
                             !.logto_jwks_uri = j, !.logto_issuer = i] :
        b \in BOOLEAN,
        j \in {<<>>, ConfiguredState.logto_jwks_uri},
        i \in {<<>>, ConfiguredState.logto_issuer}}

\* Authorization header values: none, not a Bearer one, Bearer with each
\* token of the model
AuthorizationInputs ==
    {<<>>, <<<<"B", "a", "s", "i", "c", " ", "A">>>>, <<Bearer \o <<NonAscii>>>>}
        \cup {<<Bearer \o <<c>>>> : c \in {"A", "B", "X", "N", "U", "S", "I", "E"}}

EndUserRoutes == {"/user/asn", "/user/info"}

InitAuth ==
    /\ user_asn_mappings = {}
    /\ prefix_leases = {}
    /\ lease_seq = 0
    /\ now = 0
    /\ ticks = 0
    /\ req = [s \in Slots |-> IdleReq]
    /\ response = IdleReq
    /\ app_state \in AuthStates

NextAuth ==
    \/ \E s \in Slots, route \in EndUserRoutes, h \in AuthorizationInputs :
          JwtMiddleware(s, route, h)
    \/ \E s \in Slots : JwtFetchJwks(s)
    \/ \E s \in Slots : RunRequestAsn(s)
    \/ \E s \in Slots : AsnFindAvailable(s)
    \/ \E s \in Slots : AsnSelectExisting(s)
    \/ \E s \in Slots : AsnInsert(s)
    \/ \E s \in Slots : RunGetUserInfo(s)
    \/ \E s \in Slots : GetUserInfoLeases(s)

SpecAuth == InitAuth /\ [][NextAuth]_vars

\* find_available_asn over every pool with bounds in 0 .. MaxAsnValue, the
\* empty ones included, and every store in which each subject has no row or
\* a row with a value of 0 .. MaxAsnValue + 1
AsnValues == 0 .. MaxAsnValue

AsnStores ==
    {{[user_hash |-> hash_user_identifier(u), asn |-> f[u]] :
         u \in {x \in Subjects : f[x] >= 0}} :
        f \in [Subjects -> -1 .. MaxAsnValue + 1]}

InitAsnPool ==
    /\ user_asn_mappings \in AsnStores
    /\ prefix_leases = {}
    /\ lease_seq = 0
    /\ now = 0
    /\ ticks = 0
    /\ req = [s \in Slots |-> IdleReq]
    /\ response = IdleReq
    /\ app_state \in {[ConfiguredState EXCEPT !.asn_pool = [start |-> a, end |-> b]] :
                          a \in AsnValues, b \in AsnValues}

NextAsnPool == FindAvailableAsn

SpecAsnPool == InitAsnPool /\ [][NextAsnPool]_vars

\* Lines of a prefix file: empty, blank, comments, /48 networks plain and
\* with spaces around, a /64 network, a word that is no network
FileLines ==
    {<<>>, <<" ">>, <<"#", "pool">>, <<" ", "#", "pool">>,
     <<"2001:db8:1::/48">>, <<"2001:db8:2::/48">>,
     <<" ", "2001:db8:1::/48", " ">>,
     <<"2001:db8:3::/64">>, <<"prefix">>}

\* the files of at most MaxFileLines lines
PrefixFiles == UNION {[1 .. n -> FileLines] : n \in 0 .. MaxFileLines}

\* the program before main has loaded the pool from its file
InitPoolFile ==
    /\ user_asn_mappings = {}
    /\ prefix_leases = {}
    /\ lease_seq = 0
    /\ now = 0
    /\ ticks = 0
    /\ req = [s \in Slots |-> IdleReq]
    /\ response = IdleReq
    /\ app_state \in {[ConfiguredState EXCEPT !.prefix_pool_file = f,
                                              !.prefix_pool = <<>>] :
                          f \in PrefixFiles}

NextPoolFile == LoadPrefixPool

SpecPoolFile == InitPoolFile /\ [][NextPoolFile]_vars

\* find_available_prefix over the pool of every file and every store of
\* active leases on the blocks 2001:db8:1::/48 to 2001:db8:3::/48, blocks
\* of no pool included
LeaseStores ==
    {{[id |-> k, user_hash |-> hash_user_identifier("alice"),
       prefix |-> Ipv6Net_to_string(Ipv6Net(k, 48)),
       start_time |-> 0, end_time |-> MinDurationHours] : k \in S} :
        S \in SUBSET (1 .. 3)}

InitPrefixPool ==
    /\ user_asn_mappings = {}
    /\ prefix_leases \in LeaseStores
    /\ lease_seq = 3
    /\ now = 0
    /\ ticks = 0
    /\ req = [s \in Slots |-> IdleReq]
    /\ response = IdleReq
    /\ app_state \in {[ConfiguredState EXCEPT !.prefix_pool_file = f,
                                              !.prefix_pool = from_file(f)] :
                          f \in PrefixFiles}

NextPrefixPool == FindAvailablePrefix

SpecPrefixPool == InitPrefixPool /\ [][NextPrefixPool]_vars

\* The service routes over a store filled by request_asn and request_prefix:
\* the settings of the management API vary, the agent key is the default.
ServiceStates ==
    {[ConfiguredState EXCEPT !.logto_management_api = a, !.logto_m2m_app_secret = k] :
        a \in {<<>>, ConfiguredState.logto_management_api},
        k \in {<<>>, ConfiguredState.logto_m2m_app_secret}}

\* Authorization header values of the agent: none, the key itself, another
\* key, another scheme, the scheme in lower case, the key with a character
\* more or less, two spaces, no space, a value that is not visible ASCII
AgentAuthorizationInputs ==
    {<<>>,
     <<Bearer \o DefaultAgentKey>>,
     <<Bearer \o <<"w", "r", "o", "n", "g">>>>,
     <<<<"B", "a", "s", "i", "c", " ">> \o DefaultAgentKey>>,
     <<<<"b", "e", "a", "r", "e", "r", " ">> \o DefaultAgentKey>>,
     <<Bearer \o DefaultAgentKey \o <<"y">>>>,
     <<Bearer \o SubSeq(DefaultAgentKey, 1, Len(DefaultAgentKey) - 1)>>,
     <<Bearer \o <<" ">> \o DefaultAgentKey>>,
     <<SubSeq(Bearer, 1, Len(Bearer) - 1) \o DefaultAgentKey>>,
     <<Bearer>>,
     <<Bearer \o <<NonAscii>>>>}

ServiceRoutes == {"/mappings", "/mappings/{user_hash}"}

\* the user_hash of the path: every handle of the model and a text that is
\* the handle of nobody
PathHandles == Handles \cup {"0000"}

InitService ==
    /\ user_asn_mappings = {}
    /\ prefix_leases = {}
    /\ lease_seq = 0
    /\ now = 0
    /\ ticks = 0
    /\ req = [s \in Slots |-> IdleReq]
    /\ response = IdleReq
    /\ app_state \in ServiceStates

NextService ==
    \/ \E s \in Slots, sub \in LeaseSubjects : Quiescent /\ AsnGetUserAsn(s, sub)
    \/ \E s \in Slots : AsnFindAvailable(s)
    \/ \E s \in Slots : AsnSelectExisting(s)
    \/ \E s \in Slots : AsnInsert(s)
    \/ \E s \in Slots, sub \in MixedLeaseSubjects, d \in MixedDurations :
          Quiescent /\ PrefixGetActiveLeases(s, sub, d)
    \/ \E s \in Slots : PrefixCreateLease(s)
    \/ \E s \in Slots, route \in ServiceRoutes, h \in AgentAuthorizationInputs,
          user_hash \in PathHandles :
          /\ Quiescent
          /\ route = "/mappings" => user_hash = "0000"
          /\ ValidateAgentKey(s, route, h, IF route = "/mappings" THEN "" ELSE user_hash)
    \/ \E s \in Slots : RunGetUserMapping(s)
    \/ \E s \in Slots : GetUserMappingLeases(s)
    \/ \E s \in Slots : GetUserMappingEmail(s)
    \/ \E s \in Slots : RunGetAllMappings(s)
    \/ \E s \in Slots : GetAllMappingsLeases(s)
    \/ \E s \in Slots : GetAllMappingsEmails(s)
    \/ \E d \in MixedTickSteps : ticks < MaxConcurrentTicks /\ Tick(d)

SpecService == InitService /\ [][NextService]_vars

(***************************************************************************)
(* create_app: the end-user routes under /api behind jwt_middleware and    *)
(* the service routes under /service behind validate_agent_key, each       *)
(* reached with every kind of credential, with the bypass off and on       *)
(***************************************************************************)
RouteStates ==
    {[ConfiguredState EXCEPT !.bypass_jwt_validation = b] : b \in BOOLEAN}

\* no header, the token of each subject, the agent key
CredentialInputs ==
    {<<>>, <<Bearer \o <<"A">>>>, <<Bearer \o <<"B">>>>, <<Bearer \o DefaultAgentKey>>}

ApiRoutes == {"/user/asn", "/user/prefix"}

InitRoutes ==
    /\ user_asn_mappings = {}
    /\ prefix_leases = {}
    /\ lease_seq = 0
    /\ now = 0
    /\ ticks = 0
    /\ req = [s \in Slots |-> IdleReq]
    /\ response = IdleReq
    /\ app_state \in RouteStates

NextRoutes ==
    \/ \E s \in Slots, route \in ApiRoutes, h \in CredentialInputs :
          JwtMiddleware(s, route, h)
    \/ \E s \in Slots : JwtFetchJwks(s)
    \/ \E s \in Slots : RunRequestAsn(s)
    \/ \E s \in Slots : AsnFindAvailable(s)
    \/ \E s \in Slots : AsnSelectExisting(s)
    \/ \E s \in Slots : AsnInsert(s)
    \/ \E s \in Slots, d \in MixedDurations : RunRequestPrefix(s, d)
    \/ \E s \in Slots : PrefixCreateLease(s)
    \/ \E s \in Slots, route \in ServiceRoutes, h \in CredentialInputs,
          user_hash \in PathHandles :
          /\ Quiescent
          /\ route = "/mappings" => user_hash = "0000"
          /\ ValidateAgentKey(s, route, h, IF route = "/mappings" THEN "" ELSE user_hash)
    \/ \E s \in Slots : RunGetUserMapping(s)
    \/ \E s \in Slots : GetUserMappingLeases(s)
    \/ \E s \in Slots : GetUserMappingEmail(s)
    \/ \E s \in Slots : RunGetAllMappings(s)
    \/ \E s \in Slots : GetAllMappingsLeases(s)
    \/ \E s \in Slots : GetAllMappingsEmails(s)

SpecRoutes == InitRoutes /\ [][NextRoutes]_vars

(***************************************************************************)
(* GET /service/mappings over stores built by request_asn and              *)
(* request_prefix, with leases of the shortest and the longest duration    *)
(* and a clock that steps by an hour, also during the reads of the handler *)
(***************************************************************************)
MappingStates == {CliDefaults, ConfiguredState}

MappingDurations == {MinDurationHours, MaxDurationHours}

InitMappings ==
    /\ user_asn_mappings = {}
    /\ prefix_leases = {}
    /\ lease_seq = 0
    /\ now = 0
    /\ ticks = 0
    /\ req = [s \in Slots |-> IdleReq]
    /\ response = IdleReq
    /\ app_state \in MappingStates

NextMappings ==
    \/ \E s \in Slots, sub \in LeaseSubjects : Quiescent /\ AsnGetUserAsn(s, sub)
    \/ \E s \in Slots : AsnFindAvailable(s)
    \/ \E s \in Slots : AsnSelectExisting(s)
    \/ \E s \in Slots : AsnInsert(s)
    \/ \E s \in Slots, sub \in LeaseSubjects, d \in MappingDurations :
          Quiescent /\ PrefixGetActiveLeases(s, sub, d)
    \/ \E s \in Slots : PrefixCreateLease(s)
    \/ \E s \in Slots :
          Quiescent /\ ValidateAgentKey(s, "/mappings", <<Bearer \o app_state.agent_key>>, "")
    \/ \E s \in Slots : RunGetAllMappings(s)
    \/ \E s \in Slots : GetAllMappingsLeases(s)
    \/ \E s \in Slots : GetAllMappingsEmails(s)
    \/ Tick(MinDurationHours)

SpecMappings == InitMappings /\ [][NextMappings]_vars

(***************************************************************************)
(* Properties                                                              *)
(***************************************************************************)
\* the request of slot s returns in this step
Returns(s) == req[s].pc # "idle" /\ req'[s].pc = "idle"

\* both tables are left as they are
StoreUnchanged == UNCHANGED <<user_asn_mappings, prefix_leases, lease_seq>>

AsnRange == asn_pool_start .. asn_pool_end

\* the rows of user_asn_mappings held by handle h
RowsOf(h) == {m \in user_asn_mappings : m.user_hash = h}

\* C1: no two distinct handles are committed to the same ASN value, in any
\* interleaving of concurrent request_asn operations.
C1_AsnExclusive ==
    \A m1, m2 \in user_asn_mappings :
        m1.user_hash # m2.user_hash => m1.asn # m2.asn

\* C2: no two distinct handles hold leases on the same prefix whose
\* [start_time, end_time) windows overlap, in any interleaving of concurrent
\* request_prefix operations.
C2_PrefixExclusive ==
    \A l1, l2 \in prefix_leases :
        (l1.user_hash # l2.user_hash /\ l1.prefix = l2.prefix)
            => (l1.end_time <= l2.start_time \/ l2.end_time <= l1.start_time)

\* a request_asn that answers 200 carries the asn of the one row its handle
\* holds
C3_ReturnsStoredAsn ==
    (response.op = "request_asn" /\ response.status = 200)
        => RowsOf(response.user_hash) =
               {[user_hash |-> response.user_hash, asn |-> response.asn[1]]}

\* no step deletes the row of a handle or changes its asn
C3_RowsKept ==
    \A m \in user_asn_mappings :
        {x \in user_asn_mappings' : x.user_hash = m.user_hash} = {m}

\* a request_asn goes on to look for a free ASN only if its handle has no
\* row when it starts; one that is answered at once is answered 200, or 500
\* after a store failure
C3_LaterRequest ==
    /\ \A s \in Slots :
          (req[s].pc = "idle" /\ req'[s].pc = "find_available_asn")
              => RowsOf(req'[s].user_hash) = {}
    /\ (response'.pc = "done" /\ req' = req /\ response'.op = "request_asn")
          => \/ response'.status = 200
             \/ response'.status = 500 /\ response'.store_err

\* C3: once a handle has an ASN row, every request_asn started afterwards for
\* that handle returns the asn of that row (or 500 if the store fails), the
\* asn stored for the handle never changes and the row is never deleted,
\* whatever other requests, sweeps and clock steps happen in between.
C3_AsnAssignmentStable ==
    /\ []C3_ReturnsStoredAsn
    /\ [][C3_RowsKept /\ C3_LaterRequest]_vars

\* a handle that holds an ASN asks again after a lease was made and swept and
\* another handle was served, and is answered with its stored asn
C3_Witness ==
    /\ response.message = "ASN already assigned"
    /\ response.user_hash = hash_user_identifier("alice")
    /\ response.asn = <<asn_pool_start + 1>>
    /\ Cardinality(user_asn_mappings) >= 2
    /\ lease_seq >= 1
    /\ prefix_leases = {}

C4_OneRowPerHandle == \A h \in Handles : Cardinality(RowsOf(h)) <= 1

\* the INSERT of a request whose handle got a row in the meantime leaves the
\* table as it is and returns the committed asn; otherwise it adds the one
\* row (handle, asn asked for)
C4_FirstCommitWins ==
    \A s \in Slots :
        (req[s].pc = "get_or_create_insert" /\ Returns(s)
         /\ ~response'.store_err)
            => LET h == req[s].user_hash
               IN /\ response'.status = 200
                  /\ response'.user_hash = h
                  /\ IF RowsOf(h) # {}
                     THEN /\ user_asn_mappings' = user_asn_mappings
                          /\ \E m \in RowsOf(h) : response'.asn = <<m.asn>>
                     ELSE /\ user_asn_mappings' = user_asn_mappings \cup
                                 {[user_hash |-> h, asn |-> req[s].available_asn[1]]}
                          /\ response'.asn = req[s].available_asn

\* C4: user_asn_mappings holds at most one row per handle in every reachable
\* state; when two request_asn operations of one handle both see no row,
\* exactly one row results, the asn committed first stays (an INSERT that
\* carries another asn changes nothing) and both requests return that asn.
C4_SingleRowPerHandle ==
    /\ []C4_OneRowPerHandle
    /\ []C3_ReturnsStoredAsn
    /\ [][C4_FirstCommitWins]_vars

\* the second of two racing requests of one handle is answered with the asn
\* committed by the first, not the asn it asked the store to insert
C4_Witness ==
    /\ response.op = "request_asn"
    /\ response.status = 200
    /\ response.message = "ASN assigned successfully"
    /\ response.available_asn # <<>>
    /\ response.available_asn # response.asn
    /\ Cardinality(RowsOf(response.user_hash)) = 1

\* the assigned values are the first Cardinality(user_asn_mappings) values of
\* the range, one per handle
C5_Contiguous ==
    /\ assigned_asns(user_asn_mappings) =
           asn_pool_start .. (asn_pool_start + Cardinality(user_asn_mappings) - 1)
    /\ \A h \in Handles : Cardinality(RowsOf(h)) <= 1

\* a request_asn of a handle without a row that ends without a store failure,
\* when k - 1 handles hold an assignment
C5_KthHandle ==
    \A s \in Slots :
        (req[s].op = "request_asn" /\ Returns(s) /\ ~response'.store_err)
            => LET k == Cardinality(user_asn_mappings) + 1
                   h == req[s].user_hash
               IN IF k <= asn_pool_end - asn_pool_start + 1
                  THEN /\ response'.status = 200
                       /\ response'.asn = <<asn_pool_start + k - 1>>
                       /\ user_asn_mappings' = user_asn_mappings \cup
                              {[user_hash |-> h, asn |-> asn_pool_start + k - 1]}
                  ELSE /\ response'.status = 503
                       /\ user_asn_mappings' = user_asn_mappings

\* C5: with request_asn operations served one at a time from an empty store,
\* the k-th distinct handle to be served receives asn_pool_start + k - 1, and
\* once every value of the range is assigned a request of a further handle
\* returns 503 and stores nothing.
C5_SequentialAllocation ==
    /\ []C5_Contiguous
    /\ [][C5_KthHandle]_vars

\* Scenario A: range [65000, 65001], two handles served 65000 and 65001, a
\* third handle answered 503
C5_Witness ==
    /\ \E a, b \in Handles :
          /\ a # b
          /\ user_asn_mappings =
                 {[user_hash |-> a, asn |-> asn_pool_start],
                  [user_hash |-> b, asn |-> asn_pool_start + 1]}
    /\ response.op = "request_asn"
    /\ response.status = 503

\* the prefixes (as stored text) that have a lease with end_time > now
ActivePrefixes == {l.prefix : l \in {x \in prefix_leases : x.end_time > now}}

PoolTexts == {Ipv6Net_to_string(prefixes[i]) : i \in 1 .. Len(prefixes)}

\* the first entry of the pool, in file order, whose text is not in taken
FirstFree(taken) ==
    LET free == {i \in 1 .. Len(prefixes) :
                    Ipv6Net_to_string(prefixes[i]) \notin taken}
    IN IF free = {} THEN <<>>
       ELSE <<Ipv6Net_to_string(prefixes[CHOOSE i \in free :
                                            \A j \in free : i <= j])>>

\* what a request_prefix takes as leased is exactly what has an active lease
\* when it reads the store
C6_ReadsActiveLeases ==
    \A s \in Slots :
        (req[s].pc = "idle" /\ req'[s].pc = "create_prefix_lease")
            => {Ipv6Net_to_string(p) : p \in req'[s].leased_prefixes}
                   = ActivePrefixes

\* the prefix granted is the first of the pool that had no active lease at
\* the read, it has no active lease when it is granted, and the new row
\* carries it
C6_GrantsFirstFree ==
    \A s \in Slots :
        (req[s].pc = "create_prefix_lease" /\ Returns(s)
         /\ response'.status = 200)
            => /\ <<response'.prefix>> =
                      FirstFree({Ipv6Net_to_string(p) :
                                    p \in req[s].leased_prefixes})
               /\ response'.prefix \notin ActivePrefixes
               /\ \E l \in prefix_leases' \ prefix_leases :
                      /\ l.prefix = response'.prefix
                      /\ l.user_hash = req[s].user_hash
                      /\ prefix_leases' = prefix_leases \cup {l}

\* C6: with request_prefix operations served one at a time, a request made
\* while other leases are active is granted the first prefix in pool file
\* order that has no active lease when the request reads the store, and
\* never a prefix that has an active lease when it is granted.
C6_SequentialPrefixGrant == [][C6_ReadsActiveLeases /\ C6_GrantsFirstFree]_vars

\* Scenario B: the first pool prefix is actively leased by one handle and
\* another handle is granted the second
C6_Witness ==
    /\ response.op = "request_prefix"
    /\ response.status = 200
    /\ response.prefix = Ipv6Net_to_string(prefixes[2])
    /\ \E l \in prefix_leases :
          /\ l.prefix = Ipv6Net_to_string(prefixes[1])
          /\ l.end_time > now
          /\ l.user_hash # response.user_hash

\* C7: every ASN find_available_asn returns, and so every asn request_asn
\* stores or returns, lies in [asn_pool_start, asn_pool_end].
C7_AsnWithinRange ==
    /\ \A m \in user_asn_mappings : m.asn \in AsnRange
    /\ \A s \in Slots :
          req[s].available_asn # <<>> => req[s].available_asn[1] \in AsnRange
    /\ response.asn # <<>> => response.asn[1] \in AsnRange
    /\ response.available_asn # <<>> => response.available_asn[1] \in AsnRange

\* the last value of the range is assigned and the next scan finds nothing
C7_Witness ==
    /\ \E m \in user_asn_mappings : m.asn = asn_pool_end
    /\ \E m \in user_asn_mappings : m.asn = asn_pool_start
    /\ response.op = "request_asn"
    /\ response.status = 503
    /\ response.pool_lookup

\* request_asn with every value of the range assigned: 503, or 500 after a
\* failure of the store read, and no row written
C8_AsnExhausted ==
    \A s \in Slots :
        (req[s].pc = "find_available_asn" /\ req'[s] # req[s]
         /\ AsnRange \subseteq assigned_asns(user_asn_mappings))
            => /\ Returns(s)
               /\ \/ response'.status = 503 /\ ~response'.store_err
                  \/ response'.status = 500 /\ response'.store_err
               /\ StoreUnchanged

\* request_prefix with every pool prefix actively leased: the read sees them
\* all, and the request then ends with 503 and no row written
C8_PrefixExhausted ==
    \A s \in Slots :
        /\ (req[s].pc = "idle" /\ req'[s].pc = "create_prefix_lease"
            /\ PoolTexts \subseteq ActivePrefixes)
              => \A i \in 1 .. Len(prefixes) :
                     prefixes[i] \in req'[s].leased_prefixes
        /\ (req[s].pc = "create_prefix_lease" /\ req'[s] # req[s]
            /\ \A i \in 1 .. Len(prefixes) :
                   prefixes[i] \in req[s].leased_prefixes)
              => /\ Returns(s)
                 /\ response'.status = 503
                 /\ ~response'.store_err
                 /\ StoreUnchanged

\* a 503 never comes with a written row, and a 500 only after a store failure
C8_NoRowOn503 ==
    /\ response'.status = 503 => StoreUnchanged
    /\ response'.status = 500 => response'.store_err

\* C8: when the pool has nothing free the operation returns 503, not 500,
\* and inserts no row: request_asn when every ASN of the range is assigned,
\* request_prefix when every pool prefix has an active lease.
C8_ExhaustionIs503 ==
    [][C8_AsnExhausted /\ C8_PrefixExhausted /\ C8_NoRowOn503]_vars

\* every pool prefix is actively leased and every ASN is assigned; a
\* request_asn has just been answered 503
C8_Witness ==
    /\ AsnRange \subseteq assigned_asns(user_asn_mappings)
    /\ PoolTexts \subseteq ActivePrefixes
    /\ response.op = "request_asn"
    /\ response.status = 503
    /\ response.message = "No available ASNs at this time"
    /\ ~response.store_err

\* every pool prefix is actively leased; a request_prefix has just been
\* answered 503
C8_WitnessPrefix ==
    /\ PoolTexts \subseteq ActivePrefixes
    /\ response.op = "request_prefix"
    /\ response.status = 503
    /\ response.message = "No available prefixes at this time"

\* a request_prefix is answered 400 exactly for a duration outside [1, 24],
\* and then it has read nothing from the store and looked nothing up
C9_ResponseShape ==
    response.op = "request_prefix"
        => /\ response.status = 400
                <=> (response.duration_hours < 1 \/ response.duration_hours > 24)
           /\ response.status = 400
                => /\ ~response.store_read
                   /\ ~response.pool_lookup
                   /\ ~response.store_err

\* the step that answers 400 is the first of the request and writes nothing
C9_RejectedAtEntry ==
    response'.status = 400 => /\ req' = req
                              /\ StoreUnchanged

\* C9: request_prefix with duration_hours < 1 or > 24 returns 400 before any
\* store read, pool lookup or insert; with duration_hours in [1, 24] it is
\* never answered 400.
C9_DurationValidated ==
    /\ []C9_ResponseShape
    /\ [][C9_RejectedAtEntry]_vars

\* a request for 25 hours is answered 400 while the store holds a lease
C9_Witness ==
    /\ response.status = 400
    /\ response.duration_hours = 25
    /\ prefix_leases # {}

\* the lease inserted spans exactly the hours asked for, starting at the
\* time of the insert, and the response carries the stored row
C10_InsertedLease ==
    \A s \in Slots :
        (req[s].pc = "create_prefix_lease" /\ Returns(s)
         /\ response'.status = 200)
            => \E l \in prefix_leases' \ prefix_leases :
                  /\ l.start_time = now
                  /\ l.end_time = l.start_time + req[s].duration_hours
                  /\ response'.start_time = l.start_time
                  /\ response'.end_time = l.end_time
                  /\ response'.prefix = l.prefix
                  /\ response'.duration_hours = req[s].duration_hours

\* no step changes start_time or end_time of a stored lease
C10_LeaseRowsFixed ==
    \A l \in prefix_leases' :
        l \in prefix_leases \/ l.id > lease_seq

\* C10: every lease is created with end_time = start_time + duration_hours
\* hours exactly, start_time being the time of the insert, and the response
\* to request_prefix carries the stored start_time and end_time.
C10_LeaseWindow ==
    /\ [][C10_InsertedLease /\ C10_LeaseRowsFixed]_vars
    /\ [](\A l \in prefix_leases :
              l.end_time - l.start_time \in MinDurationHours .. MaxDurationHours)

\* a lease of 24 hours inserted after the clock has moved
C10_Witness ==
    /\ response.op = "request_prefix"
    /\ response.status = 200
    /\ response.duration_hours = 24
    /\ response.start_time > 0
    /\ response.end_time = response.start_time + 24
    /\ \E l \in prefix_leases :
          /\ l.start_time = response.start_time
          /\ l.end_time = response.end_time
          /\ l.prefix = response.prefix

\* is lease l active at time t
ActiveAt(l, t) == l.end_time > t

\* get_user_info reports a lease of the handle exactly if its end_time is
\* after the time of the query
C11_UserQuery ==
    \A s \in Slots :
        (req[s].op = "get_user_info" /\ Returns(s) /\ response'.status = 200)
            => \A l \in prefix_leases :
                   l.user_hash = req[s].user_hash
                       => ([prefix |-> l.prefix, start_time |-> l.start_time,
                            end_time |-> l.end_time] \in response'.active_leases
                              <=> ActiveAt(l, now))

\* the system-wide read of request_prefix takes a prefix as leased exactly
\* if some lease of it has end_time after the time of the query
C11_AllQuery ==
    \A s \in Slots :
        (req[s].pc = "idle" /\ req'[s].pc = "create_prefix_lease")
            => \A i \in 1 .. Len(prefixes) :
                   prefixes[i] \in req'[s].leased_prefixes
                       <=> \E l \in prefix_leases :
                               /\ l.prefix = Ipv6Net_to_string(prefixes[i])
                               /\ ActiveAt(l, now)

\* is_prefix_leased answers true exactly if some lease of the prefix has
\* end_time after the time of the query
C11_PrefixQuery ==
    response.op = "is_prefix_leased"
        => (response.is_leased
              <=> \E l \in prefix_leases :
                      l.prefix = response.prefix /\ ActiveAt(l, now))

\* a lease that is not active stays so: the clock does not go back and no
\* step moves the end_time of a row
C11_NoRevival ==
    /\ now' >= now
    /\ \A l \in prefix_leases : \A k \in prefix_leases' :
          (k.id = l.id /\ ~ActiveAt(l, now)) => ~ActiveAt(k, now')

\* C11: the active-lease queries (per handle, system-wide, is_prefix_leased)
\* report a lease if and only if end_time > now at the time of the query; at
\* now = end_time and later the lease is left out, and no operation makes an
\* expired lease active again.
C11_ActiveIffEndTimeAfterNow ==
    /\ []C11_PrefixQuery
    /\ [][C11_UserQuery /\ C11_AllQuery /\ C11_NoRevival]_vars

\* at the instant now = end_time the handle's lease is stored and
\* get_user_info reports no active lease
C11_Witness ==
    /\ response.op = "get_user_info"
    /\ response.status = 200
    /\ response.active_leases = {}
    /\ \E l \in prefix_leases :
          l.user_hash = response.user_hash /\ l.end_time = now

\* every lease stored for the prefix has end_time <= now
AllExpired(prefix) ==
    \A l \in prefix_leases :
        l.prefix = Ipv6Net_to_string(prefix) => l.end_time <= now

\* the read of a request_prefix does not take as leased a prefix whose
\* leases have all expired, purged or not
C12_ExpiredNotCounted ==
    \A s \in Slots :
        (req[s].pc = "idle" /\ req'[s].pc = "create_prefix_lease")
            => \A i \in 1 .. Len(prefixes) :
                   AllExpired(prefixes[i])
                       => prefixes[i] \notin req'[s].leased_prefixes

\* a request that read some pool prefix as not leased is granted such a
\* prefix (the first of them), or fails on the store; it is not answered 503
C12_EligibleGranted ==
    \A s \in Slots :
        (req[s].pc = "create_prefix_lease" /\ Returns(s)
         /\ \E i \in 1 .. Len(prefixes) : prefixes[i] \notin req[s].leased_prefixes)
            => \/ response'.status = 500 /\ response'.store_err
               \/ /\ response'.status = 200
                  /\ \E i \in 1 .. Len(prefixes) :
                        /\ prefixes[i] \notin req[s].leased_prefixes
                        /\ response'.prefix = Ipv6Net_to_string(prefixes[i])

\* C12: expired leases do not count toward occupancy: once every lease of a
\* prefix has end_time <= now a later request_prefix reads the prefix as
\* free and can be granted it, whether or not the expired rows were purged,
\* and a request that reads a pool whose leases have all expired is not
\* answered 503.
C12_ExpiredLeasesFreeThePrefix ==
    [][C12_ExpiredNotCounted /\ C12_EligibleGranted]_vars

\* a prefix is granted again while the expired row of its earlier lease is
\* still stored
C12_Witness ==
    /\ response.op = "request_prefix"
    /\ response.status = 200
    /\ response.prefix = Ipv6Net_to_string(prefixes[1])
    /\ \E l \in prefix_leases :
          /\ l.prefix = response.prefix
          /\ l.end_time <= response.start_time
          /\ l.end_time <= now
    /\ \E l \in prefix_leases :
          /\ l.prefix = response.prefix
          /\ l.start_time = response.start_time
          /\ l.end_time > now

\* the Authorization header values that carry a token in order: one the
\* provider signed with its published key, of its issuer, not expired
Authentic == {<<Bearer \o <<"A">>>>, <<Bearer \o <<"B">>>>}

\* the handler of the request has been entered
HandlerRun(r) == r.pc = "next_run" \/ r.op # "none"

\* with bypass off, a request in flight whose credential is not in order
\* has not entered a handler and has touched neither store nor pool
C13_NoHandlerInFlight ==
    ~app_state.bypass_jwt_validation
        => \A s \in Slots :
              (req[s].pc # "idle" /\ req[s].authorization \notin Authentic)
                  => /\ ~HandlerRun(req[s])
                     /\ ~req[s].store_read
                     /\ ~req[s].pool_lookup

\* with bypass off, the answer to such a request comes from the middleware:
\* 401 or 500, no handler entered, neither store nor pool touched
C13_AnsweredByMiddleware ==
    (/\ ~app_state.bypass_jwt_validation
     /\ response.pc = "done"
     /\ response.authorization \notin Authentic)
        => /\ response.op = "none"
           /\ response.status \in {401, 500}
           /\ ~response.store_read
           /\ ~response.pool_lookup
           /\ ~response.store_err

\* the step that answers such a request leaves the store as it is
C13_StoreKept ==
    (/\ ~app_state.bypass_jwt_validation
     /\ response'.pc = "done"
     /\ response'.authorization \notin Authentic)
        => StoreUnchanged

\* C13: with bypass off, a request to an end-user route that fails
\* authentication (missing header, malformed token, missing or unknown key
\* id, signature, issuer or expiry mismatch) is answered by the middleware
\* and the route handler is never run: no store read or write, no pool
\* lookup, the store unchanged.
C13_FailedAuthRunsNoHandler ==
    /\ []C13_NoHandlerInFlight
    /\ []C13_AnsweredByMiddleware
    /\ [][C13_StoreKept]_vars

\* Scenario C: a token whose signature does not verify is answered 401 after
\* the key set was fetched, with an assignment in the store
C13_Witness ==
    /\ ~app_state.bypass_jwt_validation
    /\ response.status = 401
    /\ response.authorization = <<Bearer \o <<"S">>>>
    /\ response.jwks_fetched
    /\ response.op = "none"
    /\ user_asn_mappings # {}

\* the one Authorization value of the agent
AgentAuthorization == <<Bearer \o app_state.agent_key>>

\* a request in flight on a service route carries the agent's value
C14_InFlightHasKey ==
    \A s \in Slots :
        (req[s].pc # "idle" /\ req[s].route \in ServiceRoutes)
            => req[s].authorization = AgentAuthorization

\* an answered request on a service route: with the agent's value the
\* handler was run and the answer is not 401; with any other value the
\* answer is 401, no handler was run, the store was not read
C14_AnswerByKey ==
    (response.pc = "done" /\ response.route \in ServiceRoutes)
        => IF response.authorization = AgentAuthorization
           THEN /\ response.op \in {"get_user_mapping", "get_all_mappings"}
                /\ response.status # 401
                /\ response.store_read
           ELSE /\ response.op = "none"
                /\ response.status = 401
                /\ ~response.store_read
                /\ ~response.pool_lookup
                /\ ~response.store_err

\* the arrival of a request on a service route: the handler is entered
\* with the agent's value and with nothing else, the rejection answers at
\* once and leaves the store as it is
C14_Arrival ==
    \A s \in Slots :
        /\ (req[s].pc = "idle" /\ req'[s].route \in ServiceRoutes)
              => /\ req'[s].pc = "next_run"
                 /\ req'[s].authorization = AgentAuthorization
                 /\ response' = IdleReq
        /\ (/\ response'.pc = "done"
            /\ response'.route \in ServiceRoutes
            /\ response'.authorization # AgentAuthorization)
              => /\ StoreUnchanged
                 /\ req' = req

\* C14: a request to a service route reaches its handler if and only if
\* its Authorization header is exactly "Bearer " followed by the configured
\* agent key; a missing header, another scheme or any other token is
\* answered 401 with no handler run and no store access.
C14_AgentKeyGate ==
    /\ []C14_InFlightHasKey
    /\ []C14_AnswerByKey
    /\ [][C14_Arrival]_vars

\* Scenario D: Bearer with a wrong key is answered 401 while the store
\* holds an assignment and a lease
C14_Witness ==
    /\ response.status = 401
    /\ response.route = "/mappings"
    /\ response.authorization = <<Bearer \o <<"w", "r", "o", "n", "g">>>>
    /\ ~response.store_read
    /\ user_asn_mappings # {}
    /\ prefix_leases # {}

\* the agent's value is accepted and the handler answers
C14_WitnessAdmitted ==
    /\ response.status = 200
    /\ response.route = "/mappings"
    /\ response.authorization = AgentAuthorization
    /\ response.mappings # {}

\* the store holds no row of any kind for the handle
NoStoredRow(user_hash) ==
    /\ \A m \in user_asn_mappings : m.user_hash # user_hash
    /\ \A l \in prefix_leases : l.user_hash # user_hash

\* C15: GET /mappings/{user_hash} with the agent key tells two causes of
\* 404 apart: a user_hash with no stored row of any kind is answered 404
\* "User not found", a handle that is known but has no ASN assignment is
\* answered 404 "User has no ASN assigned".
C15_TwoCausesOf404 ==
    [][\A s \in Slots :
          (/\ req[s].op = "get_user_mapping"
           /\ Returns(s)
           /\ ~response'.store_err
           /\ get_user_asn(user_asn_mappings, req[s].user_hash) = <<>>)
              => /\ response'.status = 404
                 /\ response'.message =
                        IF NoStoredRow(req[s].user_hash)
                        THEN "User not found"
                        ELSE "User has no ASN assigned"]_vars

\* what the code answers: 404 "User has no ASN assigned" for every handle
\* without an ASN assignment, the unknown ones included; "User not found"
\* is never sent
C15_NotFoundNeverSent ==
    /\ [](response.message # "User not found")
    /\ [][\A s \in Slots :
             (/\ req[s].op = "get_user_mapping"
              /\ Returns(s)
              /\ ~response'.store_err
              /\ get_user_asn(user_asn_mappings, req[s].user_hash) = <<>>)
                 => /\ response'.status = 404
                    /\ response'.message = "User has no ASN assigned"]_vars

\* a handle with a lease and no ASN assignment is answered 404 "User has
\* no ASN assigned"
C15_WitnessNoAsn ==
    /\ response.op = "get_user_mapping"
    /\ response.status = 404
    /\ response.message = "User has no ASN assigned"
    /\ \E l \in prefix_leases :
          /\ get_user_asn(user_asn_mappings, l.user_hash) = <<>>
          /\ \A h \in PathHandles \ {l.user_hash} : NoStoredRow(h)
    /\ user_asn_mappings = {}

\* the identity configuration the middleware needs is present
IdentityConfigured ==
    app_state.logto_jwks_uri # <<>> /\ app_state.logto_issuer # <<>>

\* the subject a credential in order stands for
PrincipalOf(authorization) == Jwt(bearer_token(authorization)[1]).sub

\* with bypass off, what an answer of the middleware is for each cause taken
\* alone: a credential not in order is answered 401 when the configuration
\* is present and the key set was not failing; a credential in order is
\* answered 500 when the configuration is missing or the key set could not
\* be fetched, and is never answered by the middleware otherwise
C16_AnswerByCause ==
    (/\ ~app_state.bypass_jwt_validation
     /\ response.pc = "done"
     /\ response.route \in EndUserRoutes)
        => /\ response.op = "none" => response.status \in {401, 500}
           /\ (response.authorization \notin Authentic
                  /\ IdentityConfigured /\ ~response.jwks_err)
                 => response.op = "none" /\ response.status = 401
           /\ (response.authorization \in Authentic /\ ~IdentityConfigured)
                 => /\ response.op = "none" /\ response.status = 500
                    /\ ~response.jwks_fetched
           /\ (response.authorization \in Authentic /\ response.jwks_err)
                 => response.op = "none" /\ response.status = 500
           /\ (response.op = "none" /\ response.status = 401)
                 => response.authorization \notin Authentic
           /\ (response.op = "none" /\ response.status = 500)
                 => ~IdentityConfigured \/ response.jwks_err
           /\ response.op # "none"
                 => /\ response.authorization \in Authentic
                    /\ IdentityConfigured
                    /\ response.jwks_fetched /\ ~response.jwks_err
                    /\ response.user_hash \in
                          {"", hash_user_identifier(PrincipalOf(response.authorization))}

\* with bypass off, a handler is about to run or running only for a
\* credential that passed every check, with the subject of its token
C16_PrincipalOnlyIfVerified ==
    ~app_state.bypass_jwt_validation
        => \A s \in Slots :
              (req[s].route \in EndUserRoutes /\ HandlerRun(req[s]))
                  => /\ req[s].authorization \in Authentic
                     /\ IdentityConfigured
                     /\ req[s].jwks_fetched /\ ~req[s].jwks_err
                     /\ req[s].sub = PrincipalOf(req[s].authorization)

\* C16: with bypass off, a missing header, a malformed token, an unknown
\* key id and a signature, issuer or expiry mismatch are each answered 401;
\* a missing key-set URI or issuer setting is answered 500; a failing fetch
\* of the provider's key set is answered 500; only a token that passes
\* every check yields a Principal and runs the handler.
C16_OutcomeByCause ==
    /\ []C16_AnswerByCause
    /\ []C16_PrincipalOnlyIfVerified

\* a token in order is answered 500 because the key set could not be
\* fetched
C16_Witness ==
    /\ ~app_state.bypass_jwt_validation
    /\ response.status = 500
    /\ response.op = "none"
    /\ response.jwks_err
    /\ response.authorization \in Authentic

\* the handle every caller acts on when validation is bypassed
DevHandle == hash_user_identifier("dev-user")

\* with bypass on, a request on an end-user route is never answered by the
\* middleware, carries the subject "dev-user" whatever its header, has
\* fetched no key set, and acts on the handle of "dev-user"
C17_BypassedRequests ==
    app_state.bypass_jwt_validation
        => /\ \A s \in Slots :
                 (req[s].pc # "idle" /\ req[s].route \in EndUserRoutes)
                     => /\ HandlerRun(req[s])
                        /\ req[s].sub = "dev-user"
                        /\ ~req[s].jwks_fetched
                        /\ req[s].user_hash \in {"", DevHandle}
           /\ (response.pc = "done" /\ response.route \in EndUserRoutes)
                 => /\ response.op # "none"
                    /\ response.status \notin {401}
                    /\ ~response.jwks_fetched
                    /\ response.user_hash \in {"", DevHandle}
           /\ \A m \in user_asn_mappings : m.user_hash = DevHandle

\* with bypass on, the arrival of a request enters the handler at once
C17_BypassedArrival ==
    app_state.bypass_jwt_validation
        => \A s \in Slots :
              (req[s].pc = "idle" /\ req'[s] # req[s])
                  => /\ req'[s].pc = "next_run"
                     /\ req'[s].sub = "dev-user"
                     /\ response' = IdleReq

\* with bypass off, a handler runs only behind a token that was verified
\* against the fetched key set
C17_VerifiedWhenOff ==
    ~app_state.bypass_jwt_validation
        => /\ \A s \in Slots :
                 HandlerRun(req[s])
                     => /\ req[s].jwks_fetched
                        /\ req[s].authorization \in Authentic
                        /\ req[s].sub # "dev-user"
           /\ response.op # "none"
                 => response.jwks_fetched /\ response.authorization \in Authentic
           /\ \A m \in user_asn_mappings : m.user_hash # DevHandle

\* C17: bypass mode is off unless the operator sets it; when it is on,
\* every request to an end-user route runs its handler with the fixed
\* subject "dev-user" regardless of the Authorization header and without
\* any key-set fetch, so all callers act on the single handle of
\* "dev-user"; when it is off, no request runs a handler without a
\* verified token.
C17_BypassMode ==
    /\ [](~CliDefaults.bypass_jwt_validation)
    /\ []C17_BypassedRequests
    /\ [][C17_BypassedArrival]_vars
    /\ []C17_VerifiedWhenOff

\* bypass on: a request without Authorization header and one with a token
\* of bob act on the one assignment of "dev-user"
C17_Witness ==
    /\ app_state.bypass_jwt_validation
    /\ response.status = 200
    /\ response.op = "request_asn"
    /\ response.message = "ASN already assigned"
    /\ response.authorization = <<Bearer \o <<"B">>>>
    /\ response.user_hash = DevHandle
    /\ user_asn_mappings = {[user_hash |-> DevHandle, asn |-> asn_pool_start]}

\* the rows that ended more than the retention period before t
EndedLongBefore(rows, t) == {l \in rows : t - l.end_time > RetentionHours}

\* in every state the DELETE would remove exactly the rows that ended more
\* than 7 days ago: no active lease and no lease expired for 7 days or less
C18_DeletesExactly ==
    /\ prefix_leases \ cleanup_expired_leases(prefix_leases, now)
          = EndedLongBefore(prefix_leases, now)
    /\ \A l \in prefix_leases :
          (ActiveAt(l, now) \/ now - l.end_time <= RetentionHours)
              => l \in cleanup_expired_leases(prefix_leases, now)

\* a step that removes lease rows removes the rows that ended more than 7
\* days ago and nothing else, keeps the ASN assignments, and changes the
\* result of no active-lease query and of no availability scan
C18_CleanupStep ==
    prefix_leases' # prefix_leases /\ prefix_leases' \subseteq prefix_leases
        => /\ prefix_leases \ prefix_leases' = EndedLongBefore(prefix_leases, now)
           /\ user_asn_mappings' = user_asn_mappings
           /\ now' = now
           /\ get_all_active_leases(prefix_leases', now')
                 = get_all_active_leases(prefix_leases, now)
           /\ \A h \in Handles :
                 get_active_user_leases(prefix_leases', h, now')
                     = get_active_user_leases(prefix_leases, h, now)
           /\ \A i \in 1 .. Len(prefixes) :
                 is_prefix_leased(prefix_leases', prefixes[i], now')
                     = is_prefix_leased(prefix_leases, prefixes[i], now)
           /\ find_available_prefix(parse_leased_prefixes(
                   get_all_active_leases(prefix_leases', now')))
                 = find_available_prefix(parse_leased_prefixes(
                       get_all_active_leases(prefix_leases, now)))
           /\ find_available_asn(assigned_asns(user_asn_mappings'))
                 = find_available_asn(assigned_asns(user_asn_mappings))

\* C18: cleanup_expired_leases deletes exactly the lease rows whose
\* end_time is more than 7 days before now; it never deletes an active
\* lease or one expired for 7 days or less, leaves the ASN assignments
\* unchanged, and never changes the result of an active-lease query or the
\* availability of the pools.
C18_CleanupKeepsRecent ==
    /\ []C18_DeletesExactly
    /\ [][C18_CleanupStep]_vars

\* after a cleanup: of two leases made, the one that ended more than 7 days
\* ago is gone, the one expired for less is still stored, the assignment
\* is in place
C18_Witness ==
    /\ response = IdleReq
    /\ lease_seq = 2
    /\ Cardinality(prefix_leases) = 1
    /\ \E l \in prefix_leases :
          ~ActiveAt(l, now) /\ now - l.end_time <= RetentionHours
    /\ user_asn_mappings # {}

\* the life of a lease row: Active while now is before its end_time,
\* Expired from then on while stored, Purged once deleted
LeaseState(rows, id, t) ==
    IF \A l \in rows : l.id # id
    THEN "Purged"
    ELSE IF \E l \in rows : l.id = id /\ ActiveAt(l, t) THEN "Active"
    ELSE "Expired"

\* every step moves every lease forward or leaves it: a new row is Active
\* from its start_time, a stored row keeps its fields, an Active row stays
\* or expires, an Expired row stays or is purged, and a row is purged only
\* when it ended at least 7 days ago
C19_Forward ==
    /\ \A l \in prefix_leases' \ prefix_leases :
          /\ l.id > lease_seq
          /\ l.id <= lease_seq'
          /\ l.start_time = now'
          /\ LeaseState(prefix_leases', l.id, now') = "Active"
    /\ \A l \in prefix_leases :
          LET before == LeaseState(prefix_leases, l.id, now)
              after == LeaseState(prefix_leases', l.id, now')
          IN /\ after # "Purged" => l \in prefix_leases'
             /\ before = "Active" => after \in {"Active", "Expired"}
             /\ before = "Expired" => after \in {"Expired", "Purged"}
             /\ after = "Purged" => now - l.end_time >= RetentionHours

\* the states agree with the clock and the ids are used once
C19_StateByClock ==
    /\ \A l \in prefix_leases :
          /\ LeaseState(prefix_leases, l.id, now) = "Active" <=> now < l.end_time
          /\ LeaseState(prefix_leases, l.id, now) = "Expired" <=> now >= l.end_time
          /\ l.id \in 1 .. lease_seq
    /\ \A l1, l2 \in prefix_leases : l1.id = l2.id => l1 = l2

\* C19: a PrefixLease moves only forward through Created, Active, Expired,
\* Purged: its end_time is never modified, it is Active while now is before
\* end_time and Expired from end_time on, it is Purged only from Expired
\* and only once at least 7 days past its expiry, and it never returns to
\* Active.
C19_LeaseLifecycle ==
    /\ []C19_StateByClock
    /\ [][C19_Forward]_vars

\* a lease that was made, expired and was purged, next to one that is
\* stored and expired
C19_Witness ==
    /\ lease_seq = 2
    /\ LeaseState(prefix_leases, 1, now) = "Purged"
    /\ LeaseState(prefix_leases, 2, now) = "Expired"

\* the three settings of the management API are present
ManagementConfigured ==
    /\ app_state.logto_management_api # <<>>
    /\ app_state.logto_m2m_app_id # <<>>
    /\ app_state.logto_m2m_app_secret # <<>>

\* user_hash, asn and prefixes of a mapping as the store gives them
Primary(asn_mapping, leases) ==
    [user_hash |-> asn_mapping.user_hash, asn |-> asn_mapping.asn,
     prefixes |-> {l.prefix : l \in leases}]

\* user_hash, asn and prefixes of an entry of a response
PrimaryOf(x) == [user_hash |-> x.user_hash, asn |-> x.asn, prefixes |-> x.prefixes]

\* a successful answer of a service route carries for each mapping the
\* stored ASN of its user_hash; its email is empty when the lookup failed
\* or the settings are missing, and the provider's when the lookup
\* succeeded
C20_Answer ==
    /\ (response.op = "get_user_mapping" /\ response.status = 200)
          => /\ get_user_asn(user_asn_mappings, response.user_hash) # <<>>
             /\ response.asn =
                    <<get_user_asn(user_asn_mappings, response.user_hash)[1].asn>>
             /\ ~ManagementConfigured
                    => response.lookup = "none" /\ response.email = <<>>
             /\ response.lookup = "error" => response.email = <<>>
             /\ response.lookup = "ok"
                    => response.email = primary_email(response.user_id)
    /\ (response.op = "get_all_mappings" /\ response.status = 200)
          => /\ {x.user_hash : x \in response.mappings}
                    = {m.user_hash : m \in user_asn_mappings}
             /\ \A x \in response.mappings :
                   /\ <<[user_hash |-> x.user_hash, asn |-> x.asn]>>
                         = get_user_asn(user_asn_mappings, x.user_hash)
                   /\ ~ManagementConfigured => x.email = <<>>
                   /\ x.email \in {<<>>, primary_email(x.user_id)}
             /\ ~ManagementConfigured => response.lookup = "none"
    /\ (response.op \in {"get_user_mapping", "get_all_mappings"}
           /\ response.lookup # "none")
          => response.status = 200

\* the step in which the email lookups return answers 200 with the
\* user_hash, asn and prefixes read before the lookups, whatever their
\* outcome; an answer without lookup carries the active leases read
C20_LookupStep ==
    \A s \in Slots :
        /\ (req[s].pc = "get_user_email" /\ req'[s] # req[s])
              => /\ Returns(s)
                 /\ response'.status = 200
                 /\ req[s].op = "get_user_mapping"
                       => {PrimaryOf([response' EXCEPT !.asn = response'.asn[1]])}
                             = {Primary(e.asn_mapping, e.leases) : e \in req[s].entries}
                 /\ req[s].op = "get_all_mappings"
                       => {PrimaryOf(x) : x \in response'.mappings}
                             = {Primary(e.asn_mapping, e.leases) : e \in req[s].entries}
        /\ (/\ req[s].pc = "get_active_user_leases"
            /\ req[s].op = "get_user_mapping"
            /\ Returns(s)
            /\ response'.status = 200)
              => response'.prefixes =
                    {l.prefix : l \in get_active_user_leases(prefix_leases,
                                                              req[s].user_hash, now)}
        /\ (/\ req[s].pc = "get_active_user_leases"
            /\ req[s].op = "get_all_mappings"
            /\ Returns(s)
            /\ response'.status = 200)
              => \A x \in response'.mappings :
                    {l.prefix : l \in get_active_user_leases(prefix_leases,
                                                              x.user_hash, now)}
                        \subseteq x.prefixes

\* C20: the email enrichment never fails the primary response of
\* GET /mappings and GET /mappings/{user_hash}: when the lookup fails or
\* the management settings are missing, the email is empty and the
\* response is still the successful one, with the user_hash, asn and
\* prefixes it has with a successful lookup.
C20_EnrichmentNeverFails ==
    /\ []C20_Answer
    /\ [][C20_LookupStep]_vars

\* GET /mappings answered 200 after a failed lookup: the mapping of alice
\* with its ASN and its leased prefix, and no email
C20_Witness ==
    /\ response.op = "get_all_mappings"
    /\ response.status = 200
    /\ response.lookup = "error"
    /\ \E x \in response.mappings :
          /\ x.user_id = "alice"
          /\ x.email = <<>>
          /\ x.asn \in AsnRange
          /\ x.prefixes # {}

\* GET /mappings/{user_hash} answered 200 without lookup, the settings
\* being incomplete
C20_WitnessNoSettings ==
    /\ response.op = "get_user_mapping"
    /\ response.status = 200
    /\ ~ManagementConfigured
    /\ response.email = <<>>
    /\ response.prefixes # {}

\* the lookup succeeds and the email is in the answer
C20_WitnessEmail ==
    /\ response.op = "get_user_mapping"
    /\ response.status = 200
    /\ response.lookup = "ok"
    /\ response.email = <<"alice@example.org">>

\* C21: every error response, the 401 and 500 of the end-user and agent
\* middleware included, carries a body {error, message} whose error field
\* equals the HTTP status of the response.
C21_ErrorBodyCarriesStatus ==
    (response.pc = "done" /\ response.status \notin {0, 200})
        => /\ response.body # <<>>
           /\ response.body[1].error = response.status

\* what the code sends: the error responses of the handlers carry the body
\* with their status, those of the middleware carry no body
C21_HandlersOnly ==
    (response.pc = "done" /\ response.status \notin {0, 200})
        => IF response.op = "none"
           THEN response.body = <<>> /\ response.status \in {401, 500}
           ELSE /\ response.body # <<>>
                /\ response.body[1].error = response.status
                /\ response.body[1].message = response.message

\* the step is the write of request s: the INSERT of get_or_create_user_asn
\* or of create_prefix_lease, after which the handler returns
WriteStep(s) ==
    /\ req[s].pc \in {"get_or_create_insert", "create_prefix_lease"}
    /\ Returns(s)
    /\ response'.status = 200

\* the existing rows the INSERT of request s writes
RowsUpdatedBy(s) ==
    IF req[s].pc = "get_or_create_insert" /\ Returns(s) /\ response'.status = 200
    THEN insert_user_asn(user_asn_mappings, req[s].user_hash,
                         req[s].available_asn[1]).updated
    ELSE {}

\* the store changes only in the last step of a request and by one
\* complete new row; a request that fails or is dropped changes nothing
C22_OneWriteLast ==
    /\ ~StoreUnchanged => \E s \in Slots : WriteStep(s)
    /\ user_asn_mappings' # user_asn_mappings
          => /\ \E h \in Handles, a \in AsnRange :
                   LET row == [user_hash |-> h, asn |-> a]
                   IN /\ row \notin user_asn_mappings
                      /\ user_asn_mappings' = user_asn_mappings \cup {row}
             /\ prefix_leases' = prefix_leases
    /\ prefix_leases' # prefix_leases
          => /\ \E l \in prefix_leases' :
                   /\ l \notin prefix_leases
                   /\ prefix_leases' = prefix_leases \cup {l}
                   /\ l.user_hash \in Handles
                   /\ l.prefix \in PoolTexts
                   /\ l.end_time > l.start_time
             /\ user_asn_mappings' = user_asn_mappings
    /\ \A s \in Slots :
          (Returns(s) /\ response'.status # 200) => StoreUnchanged

\* a request starts with nothing of an earlier one, and its candidate is
\* the lowest free ASN of the store as it is when the pool is asked
C22_NothingCarried ==
    \A s \in Slots :
        /\ req[s].pc = "idle" => req[s] = IdleReq
        /\ (req[s].pc = "idle" /\ req'[s].pc # "idle")
              => /\ req'[s].available_asn = <<>>
                 /\ req'[s].leased_prefixes \in
                       {{}, parse_leased_prefixes(
                               get_all_active_leases(prefix_leases, now))}
        /\ (req[s].pc = "find_available_asn" /\ req'[s].pc = "get_or_create_select")
              => LET free == AsnRange \ assigned_asns(user_asn_mappings)
                 IN /\ free # {}
                    /\ req'[s].available_asn =
                           <<CHOOSE a \in free : \A b \in free : a <= b>>

\* C22: each request_asn or request_prefix performs at most one store
\* write, as its last store operation, and carries no state to another
\* request: a request cancelled or failed at any step leaves the store
\* either unchanged or with exactly one complete new row, and a retry
\* recomputes the occupancy snapshot and candidate from the current store.
C22_OneNewRowOrNothing ==
    [][/\ C22_OneWriteLast
       /\ C22_NothingCarried
       /\ \A s \in Slots : RowsUpdatedBy(s) = {}]_vars

\* C22 as the code has it: the store is left unchanged, or with one
\* complete new row, or, when the INSERT of request_asn meets a row that
\* another request of the same handle committed meanwhile, with that one
\* row's updated_at written and nothing else.
C22_OneAtomicWrite ==
    [][/\ C22_OneWriteLast
       /\ C22_NothingCarried
       /\ \A s \in Slots :
             RowsUpdatedBy(s) # {}
                 => /\ RowsUpdatedBy(s) = RowsOf(req[s].user_hash)
                    /\ Cardinality(RowsUpdatedBy(s)) = 1
                    /\ StoreUnchanged]_vars

\* a request_asn whose INSERT met the row another request of the same
\* handle had committed: it is answered with that row, whose updated_at it
\* wrote, and the store holds the one row
C22_Witness ==
    /\ response.op = "request_asn"
    /\ response.status = 200
    /\ response.rows_updated = user_asn_mappings
    /\ Cardinality(user_asn_mappings) = 1
    /\ \A s \in Slots : req[s].pc = "idle"

\* a request dropped before its write leaves the store empty
C22_WitnessDropped ==
    /\ response = IdleReq
    /\ user_asn_mappings = {}
    /\ prefix_leases = {}
    /\ \E s \in Slots : req[s].pc = "get_or_create_insert"

\* the values of the pool of the state
PoolRange == app_state.asn_pool.start .. app_state.asn_pool.end

\* C23: for every pool [start, end] and every set of committed ASNs,
\* find_available_asn returns the minimum value of [start, end] that is
\* not committed, and none if and only if every value of [start, end] is
\* committed (the empty pool start > end included); committed values
\* outside the range do not affect the result.
C23_LowestFreeAsn ==
    (response.pc = "done" /\ response.op = "find_available_asn")
        => LET committed == assigned_asns(user_asn_mappings)
               free == PoolRange \ committed
               found == response.available_asn
           IN /\ found = <<>> <=> PoolRange \subseteq committed
              /\ found # <<>>
                    => /\ found[1] \in free
                       /\ \A a \in free : found[1] <= a
              /\ found = AsnPool_find_available_asn(app_state.asn_pool,
                              committed \cap PoolRange)

\* the pool 1..3 with 0, 1 and 4 committed: the answer is 2
C23_Witness ==
    /\ response.op = "find_available_asn"
    /\ app_state.asn_pool = [start |-> 1, end |-> 3]
    /\ assigned_asns(user_asn_mappings) = {0, 1, 4}
    /\ response.available_asn = <<2>>

\* an empty pool, start above end: the answer is none
C23_WitnessEmptyPool ==
    /\ response.op = "find_available_asn"
    /\ app_state.asn_pool.start > app_state.asn_pool.end
    /\ user_asn_mappings # {}
    /\ response.available_asn = <<>>

\* the line names a /48 block: spaces aside it is the text of one
NamesBlock(line) ==
    LET core == SelectSeq(line, LAMBDA c : c # " ")
    IN /\ Len(core) = 1
       /\ \E n \in KnownNets : n.len = 48 /\ Ipv6Net_to_string(n) = core[1]

\* the block a line names
BlockOf(line) ==
    LET core == SelectSeq(line, LAMBDA c : c # " ")
    IN CHOOSE n \in KnownNets : n.len = 48 /\ Ipv6Net_to_string(n) = core[1]

\* the pool is the blocks of the lines that name one, in file order; every
\* other line is passed over
KeepsNamedBlocksInOrder(file, pool) ==
    LET named == SelectSeq(file, NamesBlock)
    IN /\ Len(pool) = Len(named)
       /\ \A i \in 1 .. Len(pool) : pool[i] = BlockOf(named[i])

\* no block is in the pool twice
Distinct(pool) ==
    \A i, j \in 1 .. Len(pool) : i # j => pool[i] # pool[j]

\* C25: the prefix pool loaded from a file is the ordered list of distinct
\* /48 blocks it names: blank lines and lines starting with '#' are
\* ignored, unparsable lines and blocks whose length is not 48 are dropped
\* without failing the load, the kept entries keep file order, and no block
\* appears twice in the pool.
C25_PoolOfDistinctBlocks ==
    LET pool == from_file(app_state.prefix_pool_file)
    IN /\ KeepsNamedBlocksInOrder(app_state.prefix_pool_file, pool)
       /\ app_state.prefix_pool \in {<<>>, pool}
       /\ Distinct(app_state.prefix_pool)

\* what the code loads: every line that names a /48 block, in file order,
\* as often as the file names it
C25_EveryNamedLine ==
    LET pool == from_file(app_state.prefix_pool_file)
    IN /\ KeepsNamedBlocksInOrder(app_state.prefix_pool_file, pool)
       /\ app_state.prefix_pool \in {<<>>, pool}
       /\ Distinct(pool)
             <=> \A i, j \in 1 .. Len(app_state.prefix_pool_file) :
                    (/\ i # j
                     /\ NamesBlock(app_state.prefix_pool_file[i])
                     /\ NamesBlock(app_state.prefix_pool_file[j]))
                        => BlockOf(app_state.prefix_pool_file[i])
                              # BlockOf(app_state.prefix_pool_file[j])

\* a file that names one block on two lines is loaded as a pool of two
\* entries
C25_WitnessTwice ==
    /\ app_state.prefix_pool_file =
          <<<<"2001:db8:1::/48">>, <<"#", "pool">>, <<" ", "2001:db8:1::/48", " ">>>>
    /\ app_state.prefix_pool = <<Ipv6Net(1, 48), Ipv6Net(1, 48)>>

\* the texts of the blocks under an active lease
LeasedTexts == {l.prefix : l \in get_all_active_leases(prefix_leases, now)}

\* C24: for every loaded prefix list and every leased set,
\* find_available_prefix returns the first list element in file order that
\* is not in the leased set, never a leased prefix or a prefix outside the
\* pool, and none if and only if every pool prefix is leased.
C24_FirstFreePrefix ==
    (response.pc = "done" /\ response.op = "find_available_prefix")
        => LET pool == app_state.prefix_pool
               texts == [i \in 1 .. Len(pool) |-> Ipv6Net_to_string(pool[i])]
               free == {i \in 1 .. Len(pool) : texts[i] \notin LeasedTexts}
           IN /\ response.prefix = "" <=> free = {}
              /\ response.prefix # ""
                    => /\ response.prefix \notin LeasedTexts
                       /\ \E i \in free :
                             /\ texts[i] = response.prefix
                             /\ \A j \in free : i <= j

\* a pool of two blocks with the first one leased, and a lease on a block
\* of no pool: the answer is the second block
C24_Witness ==
    /\ response.op = "find_available_prefix"
    /\ app_state.prefix_pool = <<Ipv6Net(1, 48), Ipv6Net(2, 48)>>
    /\ LeasedTexts = {"2001:db8:1::/48", "2001:db8:3::/48"}
    /\ response.prefix = "2001:db8:2::/48"

\* every block of the pool leased: the answer is none
C24_WitnessNone ==
    /\ response.op = "find_available_prefix"
    /\ Len(app_state.prefix_pool) = 3
    /\ response.prefix = ""

\* the read of request_prefix sees every active lease of the requesting
\* handle
C26_OwnLeasesSeen ==
    \A s \in Slots :
        (req[s].pc = "idle" /\ req'[s].pc = "create_prefix_lease")
            => \A l \in get_active_user_leases(prefix_leases, req'[s].user_hash, now) :
                  \E p \in req'[s].leased_prefixes : Ipv6Net_to_string(p) = l.prefix

\* the successful end of request_prefix: one new row with a new id for the
\* requesting handle, every row there before kept as it was, the ASN
\* assignments untouched and not asked for, and the block granted another
\* one than every lease seen by the read
C26_OneNewLease ==
    \A s \in Slots :
        (/\ req[s].op = "request_prefix"
         /\ Returns(s)
         /\ response'.status = 200)
            => /\ prefix_leases \subseteq prefix_leases'
               /\ Cardinality(prefix_leases' \ prefix_leases) = 1
               /\ \A l \in prefix_leases' \ prefix_leases :
                     /\ l.user_hash = req[s].user_hash
                     /\ l.prefix = response'.prefix
                     /\ l.prefix \in PoolTexts
                     /\ \A o \in prefix_leases : o.id # l.id
                     /\ \A p \in req[s].leased_prefixes :
                           Ipv6Net_to_string(p) # l.prefix
               /\ user_asn_mappings' = user_asn_mappings

\* C26: every successful request_prefix inserts exactly one new lease row
\* and changes no existing row, also when the requesting handle already
\* holds active leases: the handle is then granted an additional,
\* different prefix, and no ASN assignment is required or changed.
C26_AdditionalLease ==
    [][C26_OwnLeasesSeen /\ C26_OneNewLease]_vars

\* a handle without ASN assignment holds two active leases, of different
\* blocks, the second granted just now
C26_Witness ==
    /\ response.op = "request_prefix"
    /\ response.status = 200
    /\ RowsOf(response.user_hash) = {}
    /\ Cardinality(prefix_leases) = 2
    /\ \A l \in prefix_leases : l.user_hash = response.user_hash /\ ActiveAt(l, now)
    /\ \A l1, l2 \in prefix_leases : l1.prefix = l2.prefix => l1 = l2

\* the subjects a request can run for: those of the tokens and the one of
\* the bypass
Principals == Subjects \cup {dev_auth_info.sub}

InHandler(r) == r.op \in {"request_asn", "request_prefix"}

\* a request in a handler uses the handle of its subject, and two requests
\* use the same handle exactly when they have the same subject
C27_HandleBySubject ==
    /\ \A u, v \in Principals :
          hash_user_identifier(u) = hash_user_identifier(v) => u = v
    /\ \A s \in Slots :
          InHandler(req[s]) => /\ req[s].sub \in Principals
                               /\ req[s].user_hash = hash_user_identifier(req[s].sub)
    /\ (InHandler(response) /\ response.status = 200)
          => response.user_hash = hash_user_identifier(response.sub)
    /\ \A s, o \in Slots :
          (InHandler(req[s]) /\ InHandler(req[o]))
              => (req[s].sub = req[o].sub <=> req[s].user_hash = req[o].user_hash)

\* a step of an end-user request writes and returns rows of its subject's
\* handle only
C27_OwnRowsOnly ==
    \A s \in Slots :
        (req[s].route \in ApiRoutes /\ req[s].sub \in Principals /\ req'[s] # req[s])
            => LET h == hash_user_identifier(req[s].sub)
               IN /\ \A m \in user_asn_mappings :
                        m.user_hash # h => m \in user_asn_mappings'
                  /\ \A m \in user_asn_mappings' \ user_asn_mappings : m.user_hash = h
                  /\ \A m \in response'.rows_updated : m.user_hash = h
                  /\ \A l \in prefix_leases : l \in prefix_leases'
                  /\ \A l \in prefix_leases' \ prefix_leases : l.user_hash = h
                  /\ (response'.op = "request_asn" /\ response'.status = 200)
                        => \E m \in user_asn_mappings' :
                              m.user_hash = h /\ response'.asn = <<m.asn>>

\* C27: the handle under which a request reads and writes the store is a
\* function of the authenticated subject alone: two requests with the same
\* subject always use the same handle, and requests with different
\* subjects use different handles, so one subject's request_asn or
\* request_prefix never returns or modifies another subject's assignment
\* row.
C27_HandlePerSubject ==
    []C27_HandleBySubject /\ [][C27_OwnRowsOnly]_vars

\* bob is answered with his assignment while alice has hers and a lease,
\* each row under its subject's handle
C27_Witness ==
    /\ response.op = "request_asn"
    /\ response.status = 200
    /\ response.sub = "bob"
    /\ \E a \in RowsOf(hash_user_identifier("alice")),
          b \in RowsOf(hash_user_identifier("bob")) :
          /\ user_asn_mappings = {a, b}
          /\ response.asn = <<b.asn>>
          /\ a.user_hash # b.user_hash
    /\ \E l \in prefix_leases : l.user_hash = hash_user_identifier("alice")

\* the assigned values are the first ones of the range, without a gap
C28_InitialSegment ==
    LET assigned == assigned_asns(user_asn_mappings)
    IN assigned = asn_pool_start .. (asn_pool_start + Cardinality(assigned) - 1)

\* a value is committed when every lower value of the range is
C28_LowerFirst ==
    \A m \in user_asn_mappings' \ user_asn_mappings :
        /\ m.asn \in asn_pool_start .. asn_pool_end
        /\ \A a \in asn_pool_start .. (m.asn - 1) :
              a \in assigned_asns(user_asn_mappings)

\* C28: in every state reachable from an empty store by any interleaving of
\* request_asn operations, the set of assigned ASN values is a contiguous
\* initial segment {start, ..., start+m-1} of the pool: a value is
\* committed only after every lower pool value has been committed, so the
\* range never has a gap below an assigned value.
C28_NoGapBelowAssigned ==
    []C28_InitialSegment /\ [][C28_LowerFirst]_vars

\* the whole range is assigned, the last value by a request that was in
\* flight together with another one
C28_Witness ==
    /\ assigned_asns(user_asn_mappings) = asn_pool_start .. asn_pool_end
    /\ response.op = "request_asn"
    /\ response.status = 200
    /\ response.asn = <<asn_pool_end>>
    /\ \E s \in Slots : req[s].pc = "get_or_create_insert"

\* the checks of the end-user middleware in their order; r is a request or
\* an answer.  A check that needs the token, its key id or the issuer
\* setting fails when that is missing.
CheckPasses(r, i) ==
    LET token == bearer_token(r.authorization)
        hasToken == token # <<>>
        hasKid == hasToken /\ Jwt(token[1]).wellformed /\ Jwt(token[1]).kid # <<>>
    IN CASE i = 1 -> hasToken
         [] i = 2 -> app_state.logto_jwks_uri # <<>>
         [] i = 3 -> app_state.logto_issuer # <<>>
         [] i = 4 -> hasToken /\ Jwt(token[1]).wellformed
         [] i = 5 -> hasKid
         [] i = 6 -> ~r.jwks_err
         [] i = 7 -> hasKid /\ Jwt(token[1]).kid[1] \in ProviderKeys
         [] i = 8 -> /\ hasKid
                     /\ app_state.logto_issuer # <<>>
                     /\ Jwt(token[1]).signed_with = Jwt(token[1]).kid[1]
                     /\ Jwt(token[1]).iss = app_state.logto_issuer[1]
                     /\ Jwt(token[1]).exp >= now

\* the status answered when check i fails
CheckStatus(i) == IF i \in {2, 3, 6} THEN 500 ELSE 401

\* the checks, and those made before the key set is fetched
Checks == 1 .. 8

ChecksBeforeFetch == 1 .. 5

\* the position of the first check that fails, 0 when every check passes
RECURSIVE FirstFailingFrom(_, _)
FirstFailingFrom(r, i) ==
    IF i \notin Checks THEN 0
    ELSE IF ~CheckPasses(r, i) THEN i
    ELSE FirstFailingFrom(r, i + 1)

FirstFailing(r) == FirstFailingFrom(r, 1)

\* with bypass off, an answer of the middleware is that of the first check
\* that fails, the key set was fetched exactly when the checks before the
\* fetch pass, and a handler answers only when no check fails
C29_AnswerOfFirstFailing ==
    (/\ ~app_state.bypass_jwt_validation
     /\ response.pc = "done"
     /\ response.route \in EndUserRoutes)
        => /\ response.op = "none"
                 => /\ FirstFailing(response) # 0
                    /\ response.status = CheckStatus(FirstFailing(response))
                    /\ response.jwks_fetched <=> FirstFailing(response) \notin ChecksBeforeFetch
           /\ response.op # "none"
                 => FirstFailing(response) = 0 /\ response.jwks_fetched

\* with bypass off, a request waits for the key set only when every check
\* before the fetch passed and it has not fetched yet, and is past the
\* middleware only when no check fails
C29_FetchAfterChecks ==
    ~app_state.bypass_jwt_validation
        => \A s \in Slots :
              /\ req[s].pc = "fetch_jwks"
                    => /\ ~req[s].jwks_fetched
                       /\ FirstFailing(req[s]) \notin ChecksBeforeFetch
              /\ (req[s].route \in EndUserRoutes /\ HandlerRun(req[s]))
                    => FirstFailing(req[s]) = 0 /\ req[s].jwks_fetched

\* the key set is fetched in one step of a request, the one that leaves the
\* wait for it, and a request enters that wait on arrival only
C29_FetchedOnce ==
    \A s \in Slots :
        /\ req'[s].pc = "fetch_jwks" /\ req[s].pc # "fetch_jwks"
              => req[s].pc = "idle"
        /\ (req[s].pc # "idle" /\ req'[s].pc # "idle"
                /\ req'[s].jwks_fetched /\ ~req[s].jwks_fetched)
              => req[s].pc = "fetch_jwks"
        /\ (req[s].pc # "idle" /\ req'[s].pc = "idle" /\ response'.jwks_fetched
                /\ ~req[s].jwks_fetched)
              => req[s].pc = "fetch_jwks"
        /\ (req[s].pc = "fetch_jwks" /\ req'[s] # req[s])
              => req'[s].pc # "fetch_jwks"

\* C29: with bypass off, the end-user middleware applies its checks in a
\* fixed order (Authorization header present with Bearer prefix, key-set
\* URI configured, issuer configured, token header decodable, key id
\* present, key set fetched, key id found, signature/issuer/expiry valid)
\* and the response is that of the first failing check: a request with no
\* header gets 401 even when configuration is missing, and the key set is
\* fetched at most once per request and only after the header,
\* configuration and key-id checks pass.
C29_ChecksInOrder ==
    /\ []C29_AnswerOfFirstFailing
    /\ []C29_FetchAfterChecks
    /\ [][C29_FetchedOnce]_vars

\* a request without header is answered 401 while the key-set URI and the
\* issuer are not configured
C29_Witness ==
    /\ ~app_state.bypass_jwt_validation
    /\ app_state.logto_jwks_uri = <<>>
    /\ app_state.logto_issuer = <<>>
    /\ response.route \in EndUserRoutes
    /\ response.authorization = <<>>
    /\ response.op = "none"
    /\ response.status = 401
    /\ ~response.jwks_fetched

\* a token signed by a key that is not in the key set is answered 500 when
\* the key set could not be fetched
C29_WitnessFetchFirst ==
    /\ ~app_state.bypass_jwt_validation
    /\ response.authorization = <<Bearer \o <<"U">>>>
    /\ response.op = "none"
    /\ response.status = 500
    /\ response.jwks_fetched /\ response.jwks_err

\* the header that carries the agent secret
AgentSecret == <<Bearer \o app_state.agent_key>>

\* a service route runs its handler for the agent secret only, whatever the
\* bypass, and answers 401 itself to anything else, an end-user token in
\* order included
C30_ServiceRoutesByAgentKey ==
    /\ \A s \in Slots :
          (req[s].route \in ServiceRoutes /\ HandlerRun(req[s]))
              => req[s].authorization = AgentSecret
    /\ (response.pc = "done" /\ response.route \in ServiceRoutes)
          => /\ response.op # "none" => response.authorization = AgentSecret
             /\ response.authorization # AgentSecret
                   => response.op = "none" /\ response.status = 401

\* with bypass off an end-user route runs its handler for a token in order
\* only and answers 401 itself to the agent secret; with bypass on the
\* handler runs for the bypass subject, with the agent secret as without it
C30_ApiRoutesByToken ==
    /\ \A s \in Slots :
          (req[s].route \in ApiRoutes /\ HandlerRun(req[s]))
              => IF app_state.bypass_jwt_validation
                 THEN req[s].sub = dev_auth_info.sub
                 ELSE /\ req[s].authorization \in Authentic
                      /\ req[s].sub = PrincipalOf(req[s].authorization)
    /\ (/\ response.pc = "done"
        /\ response.route \in ApiRoutes
        /\ response.authorization = AgentSecret)
          => IF app_state.bypass_jwt_validation
             THEN response.op # "none"
             ELSE /\ response.op = "none"
                  /\ response.status = 401
                  /\ ~response.jwks_fetched

\* C30: the two credential schemes are independent: presenting the agent
\* secret never authorises an end-user route (/api/user/*) and presenting a
\* valid end-user token never authorises a service route
\* (/service/mappings*); turning on the end-user bypass does not open the
\* service routes, which still require the exact agent secret.
C30_IndependentSchemes ==
    C30_ServiceRoutesByAgentKey /\ C30_ApiRoutesByToken

\* with the bypass on, a service route is refused to an end-user token in
\* order whose subject holds an assignment
C30_Witness ==
    /\ app_state.bypass_jwt_validation
    /\ response.route \in ServiceRoutes
    /\ response.authorization \in Authentic
    /\ response.op = "none"
    /\ response.status = 401
    /\ RowsOf(DevHandle) # {}

\* with the bypass off, an end-user route is refused to the agent secret
C30_WitnessAgentOnApi ==
    /\ ~app_state.bypass_jwt_validation
    /\ response.route \in ApiRoutes
    /\ response.authorization = AgentSecret
    /\ response.op = "none"
    /\ response.status = 401
    /\ user_asn_mappings # {}

\* the prefixes of the leases of handle h that are stored and active at t
ActivePrefixesAt(h, t) ==
    {l.prefix : l \in {x \in prefix_leases :
                          x.user_hash = h /\ x.start_time <= t /\ x.end_time > t}}

AllMappingsAnswered(r) == r.op = "get_all_mappings" /\ r.status = 200

\* the answer of GET /service/mappings has one entry for each handle with
\* an ASN assignment, with its asn, none for any other handle, and in each
\* entry the prefixes of the handle's leases active at a time of the
\* request
C31_EntryPerAssignment ==
    AllMappingsAnswered(response)
        => /\ \A m \in user_asn_mappings :
                 /\ Cardinality({e \in response.mappings :
                                     e.user_hash = m.user_hash}) = 1
                 /\ \A e \in response.mappings :
                       e.user_hash = m.user_hash => e.asn = m.asn
           /\ \A e \in response.mappings :
                 /\ RowsOf(e.user_hash) # {}
                 /\ \E t \in 0 .. now : e.prefixes = ActivePrefixesAt(e.user_hash, t)

\* the handler reads the assignments once, and each read of a handle's
\* leases takes exactly the leases active when it is made: the entry of
\* the handle read last is answered with the prefixes active at the answer
C31_ActiveAtRead ==
    \A s \in Slots :
        /\ (req[s].pc = "next_run" /\ req[s].route = "/mappings"
                /\ req'[s].pc = "get_active_user_leases")
              => req'[s].todo = user_asn_mappings /\ req'[s].entries = {}
        /\ (req[s].op = "get_all_mappings" /\ req[s].pc = "get_active_user_leases"
                /\ req'[s] # req[s] /\ req'[s].op = "get_all_mappings")
              => /\ Cardinality(req[s].todo \ req'[s].todo) = 1
                 /\ req'[s].todo \subseteq req[s].todo
                 /\ req[s].entries \subseteq req'[s].entries
                 /\ \A e \in req'[s].entries \ req[s].entries :
                       /\ e.asn_mapping \in req[s].todo \ req'[s].todo
                       /\ e.leases = {l \in prefix_leases :
                                         /\ l.user_hash = e.asn_mapping.user_hash
                                         /\ ActiveAt(l, now)}
        /\ (req[s].op = "get_all_mappings" /\ req[s].pc = "get_active_user_leases"
                /\ Returns(s) /\ AllMappingsAnswered(response'))
              => /\ Cardinality(req[s].todo) = 1
                 /\ \A m \in req[s].todo : \E e \in response'.mappings :
                       /\ e.user_hash = m.user_hash
                       /\ e.prefixes = ActivePrefixesAt(m.user_hash, now)
                 /\ \A x \in req[s].entries : \E e \in response'.mappings :
                       /\ e.user_hash = x.asn_mapping.user_hash
                       /\ e.asn = x.asn_mapping.asn
                       /\ e.prefixes = {l.prefix : l \in x.leases}
        /\ (req[s].op = "get_all_mappings" /\ req[s].pc = "get_user_email"
                /\ Returns(s))
              => /\ AllMappingsAnswered(response')
                 /\ Cardinality(response'.mappings) = Cardinality(req[s].entries)
                 /\ \A x \in req[s].entries : \E e \in response'.mappings :
                       /\ e.user_hash = x.asn_mapping.user_hash
                       /\ e.asn = x.asn_mapping.asn
                       /\ e.prefixes = {l.prefix : l \in x.leases}

\* C31: GET /service/mappings returns exactly one entry per handle that has
\* an ASN assignment, carrying that handle's asn and exactly the prefixes
\* of that handle's leases that are active at read time; a handle that
\* holds active leases but has no ASN assignment does not appear, and
\* expired leases never appear.
C31_AllMappings ==
    []C31_EntryPerAssignment /\ [][C31_ActiveAtRead]_vars

\* a handle with an assignment, an expired lease and an active lease of
\* another block is listed with the active block only
C31_Witness ==
    /\ AllMappingsAnswered(response)
    /\ \E e \in response.mappings, l1, l2 \in prefix_leases :
          /\ l1.user_hash = e.user_hash /\ l2.user_hash = e.user_hash
          /\ ~ActiveAt(l1, now) /\ ActiveAt(l2, now)
          /\ l1.prefix # l2.prefix
          /\ e.prefixes = {l2.prefix}

\* a handle with an active lease and no assignment is not listed, while
\* the handle with an assignment is
C31_WitnessNoAsn ==
    /\ AllMappingsAnswered(response)
    /\ Cardinality(response.mappings) = 1
    /\ \E l \in prefix_leases :
          /\ ActiveAt(l, now)
          /\ RowsOf(l.user_hash) = {}
          /\ \A e \in response.mappings : e.user_hash # l.user_hash

====
